---- MODULE Spec2Model ----
(***************************************************************************)
(* The browser client of the spaceship game (GameManager of                *)
(* public/js/login.js, the trail variant), its WebSocketManager and the    *)
(* relay's view of it.                                                     *)
(*                                                                         *)
(* Numbers.  JavaScript doubles are modelled as fixed-point integers:      *)
(*   lengths and velocities in 1/100 of a world unit (Unit == 100),        *)
(*   unit vectors in 1/1000 (NormUnit), angles in milliradians, and the    *)
(*   frame-time multiplier deltaTime in tenths (DtUnit).                   *)
(* A product or quotient is rounded toward zero.  A comparison of two      *)
(* lengths is made on their squares.                                       *)
(***************************************************************************)
EXTENDS Integers, Sequences, FiniteSets, TLC

----------------------------------------------------------------------------
(* Fixed-point scales *)

Unit == 100
NormUnit == 1000
DtUnit == 10

----------------------------------------------------------------------------
(* Bounds of the model *)

MaxTicks == 4
MaxEvents == 3
MaxScenarioTicks == 12
MaxTrailCalls == 105

----------------------------------------------------------------------------
(* THREE.Vector3 *)

Vec(a, b, c) == [x |-> a, y |-> b, z |-> c]

Zero3 == Vec(0, 0, 0)

VAdd(a, b) == Vec(a.x + b.x, a.y + b.y, a.z + b.z)

VSub(a, b) == Vec(a.x - b.x, a.y - b.y, a.z - b.z)

Dot(a, b) == a.x * b.x + a.y * b.y + a.z * b.z

LengthSq(a) == Dot(a, a)

Abs(n) == IF n < 0 THEN -n ELSE n

Sgn(n) == IF n < 0 THEN -1 ELSE IF n > 0 THEN 1 ELSE 0

Min2(a, b) == IF a < b THEN a ELSE b

(* n / d rounded toward zero (d > 0) *)
QuoT(n, d) == IF n >= 0 THEN n \div d ELSE -((-n) \div d)

(* v * (num / den), every component rounded toward zero *)
VScale(v, num, den) == Vec(QuoT(v.x * num, den), QuoT(v.y * num, den), QuoT(v.z * num, den))

RECURSIVE SqrtSearch(_, _, _)
SqrtSearch(n, lo, hi) ==
    IF lo >= hi THEN lo
    ELSE LET mid == (lo + hi + 1) \div 2
         IN  IF mid * mid <= n THEN SqrtSearch(n, mid, hi) ELSE SqrtSearch(n, lo, mid - 1)

(* floor of the square root, 0 <= n < 46340^2 *)
SqrtFloor(n) == SqrtSearch(n, 0, 46340)

(* ceiling of the square root: a quotient by it is rounded toward zero *)
SqrtCeil(n) == LET f == SqrtFloor(n) IN IF f * f = n THEN f ELSE f + 1

(* Vector3.normalize(): divideScalar(length() || 1), in NormUnit *)
Normalize(v) ==
    LET len == SqrtCeil(LengthSq(v))
    IN  IF len = 0 THEN Zero3 ELSE VScale(v, NormUnit, len)

(* a squared length that is exact up to Far and only known to exceed it beyond:
   the squares of the world's larger distances do not fit a machine integer *)
Far == 200 * Unit

NearSq(d) ==
    IF Abs(d.x) > Far \/ Abs(d.y) > Far \/ Abs(d.z) > Far
    THEN 3 * Far * Far + 1
    ELSE LengthSq(d)

DistSq(a, b) == NearSq(VSub(a, b))

----------------------------------------------------------------------------
(* GameManager.physics and the constants of the collision code *)

maxSpeed == 400
acceleration == 20
strafeAcceleration == 10
rotationSpeed == 30
dragPercent == 98
boostMultiplier == 4
shipRadius == 500
restitutionPercent == 50
maxDeltaTime == 20
gravityCutoffSq == 10000 * Unit * Unit
(* G * planetMass (0.5 * scale.x * 10), as an acceleration in Unit at distance 1,
   over NormUnit *)
gravityNumerator == (5 * Unit * Unit * Unit) \div NormUnit
trailRadius == 50
minSegmentGap == 100
sendThreshold == 10
lerpPercent == 20

----------------------------------------------------------------------------
(* The world built by initScene: the planets and the spaceport *)

Planet(px, py, pz, r) == [position |-> Vec(px * Unit, py * Unit, pz * Unit), radius |-> r * Unit]

planets ==
    << Planet(200, 0, -200, 50), Planet(-300, 100, -400, 30), Planet(400, -150, -250, 25),
       Planet(-250, -200, -600, 40), Planet(300, 200, -800, 60), Planet(-500, -50, -300, 35),
       Planet(600, 100, -700, 45) >>

(* Vector3.applyAxisAngle about Y by q quarter turns *)
TurnY(v, q) ==
    CASE q = 0 -> v
      [] q = 1 -> Vec(v.z, v.y, -v.x)
      [] q = 2 -> Vec(-v.x, v.y, -v.z)
      [] OTHER -> Vec(-v.z, v.y, v.x)

Cylinder(n, c, r, h) ==
    [type |-> "cylinder", name |-> n, position |-> c, radius |-> r, height |-> h,
     size |-> Zero3, rotation |-> 0]

Box(n, c, sz, q) ==
    [type |-> "box", name |-> n, position |-> c, radius |-> 0, height |-> 0,
     size |-> sz, rotation |-> q]

(* createLaunchRamp: the children that have a geometry, with the size of
   their bounding box and their position inside the ramp *)
rampLights ==
    [k \in 1..18 |->
        LET i == -20 + 5 * ((k - 1) \div 2)
            sx == IF k % 2 = 1 THEN -700 ELSE 700
        IN  [name |-> "light", size |-> Vec(80, 30, 300), position |-> Vec(sx, 20, i * Unit)]]

rampChildren ==
    << [name |-> "base", size |-> Vec(1500, 200, 3000), position |-> Vec(0, 0, -500)],
       [name |-> "launchRamp", size |-> Vec(1500, 711, 1984), position |-> Vec(0, 300, 2000)],
       [name |-> "leftBarrier", size |-> Vec(100, 300, 4500), position |-> Vec(-800, 100, 500)],
       [name |-> "rightBarrier", size |-> Vec(100, 300, 4500), position |-> Vec(800, 100, 500)] >>
    \o rampLights

(* rampPositions: position and rotation (in quarter turns) of the four ramps *)
rampPositions ==
    << [x |-> 9000, z |-> 0, rotation |-> 0], [x |-> 0, z |-> 9000, rotation |-> 1],
       [x |-> -9000, z |-> 0, rotation |-> 2], [x |-> 0, z |-> -9000, rotation |-> -1] >>

RampParts(pos) ==
    [k \in 1..Len(rampChildren) |->
        LET child == rampChildren[k]
        IN  Box(child.name, VAdd(TurnY(child.position, pos.rotation), Vec(pos.x, 0, pos.z)),
                child.size, pos.rotation)]

(* spaceport.userData.parts, in the order createSpaceport pushes them *)
parts ==
    << Cylinder("base", Vec(0, -500, 0), 12500, 1000),
       Cylinder("innerPad", Vec(0, -250, 0), 5000, 500),
       Cylinder("towerBase", Vec(7000, 1500, -7000), 1500, 4000),
       Cylinder("towerTop", Vec(7000, 4000, -7000), 1800, 1500) >>
    \o RampParts(rampPositions[1]) \o RampParts(rampPositions[2])
    \o RampParts(rampPositions[3]) \o RampParts(rampPositions[4])

QuarterTurn == 1571

(* spaceport.userData.launchPositions: 40 ahead of each ramp, 5 above the pad *)
launchPositions ==
    [k \in 1..Len(rampPositions) |->
        LET pos == rampPositions[k]
        IN  [position |-> VAdd(Vec(pos.x, 500, pos.z), TurnY(Vec(0, 0, 4000), pos.rotation)),
             rotation |-> Vec(0, pos.rotation * QuarterTurn, 0)]]

----------------------------------------------------------------------------
(* Collision detection *)

NoCollision == [collided |-> FALSE, position |-> Zero3, normal |-> Zero3, part |-> 0]

Collision(pos, n, k) == [collided |-> TRUE, position |-> pos, normal |-> n, part |-> k]

MinOf(S) == CHOOSE m \in S : \A o \in S : m <= o

(* a test that also takes the distance bodyRadius + shipRadius for a hit *)
PlanetHitInclusive(planet, newPosition) ==
    /\ planet.radius # 0
    /\ DistSq(newPosition, planet.position)
          <= (planet.radius + shipRadius) * (planet.radius + shipRadius)

(* the test of checkPlanetCollision on one body: distance < bodyRadius + shipRadius *)
PlanetHit(planet, newPosition) ==
    /\ planet.radius # 0
    /\ DistSq(newPosition, planet.position)
          < (planet.radius + shipRadius) * (planet.radius + shipRadius)

(* a contact point at bodyRadius + shipRadius from the centre *)
PlanetContactOutside(planet, newPosition, k) ==
    LET normal == Normalize(VSub(newPosition, planet.position))
    IN  Collision(VAdd(planet.position, VScale(normal, planet.radius + shipRadius, NormUnit)),
                  normal, k)

(* the result checkPlanetCollision returns for a body it hits *)
PlanetContact(planet, newPosition, k) ==
    LET normal == Normalize(VSub(newPosition, planet.position))
    IN  Collision(VAdd(planet.position, VScale(normal, planet.radius, NormUnit)), normal, k)

(* a check that never finds a planet *)
checkPlanetCollisionBlind(bodies, newPosition) == NoCollision

(* checkPlanetCollision over celestialObjects.planets: the first body hit decides *)
checkPlanetCollision(bodies, newPosition) ==
    LET hits == {k \in 1..Len(bodies) : PlanetHit(bodies[k], newPosition)}
    IN  IF hits = {} THEN NoCollision
        ELSE PlanetContact(bodies[MinOf(hits)], newPosition, MinOf(hits))

CylinderHit(part, newPosition) ==
    LET radius == IF part.radius # 0 THEN part.radius ELSE 10 * Unit
        height == IF part.height # 0 THEN part.height ELSE 10 * Unit
        c == part.position
    IN  /\ NearSq(Vec(newPosition.x - c.x, 0, newPosition.z - c.z))
              < (radius + shipRadius) * (radius + shipRadius)
        /\ 2 * newPosition.y > 2 * c.y - height
        /\ 2 * newPosition.y < 2 * c.y + height

CylinderContact(part, newPosition, k) ==
    LET radius == IF part.radius # 0 THEN part.radius ELSE 10 * Unit
        c == part.position
        normal == Normalize(Vec(newPosition.x - c.x, 0, newPosition.z - c.z))
    IN  Collision(Vec(c.x + QuoT(normal.x * radius, NormUnit), newPosition.y,
                      c.z + QuoT(normal.z * radius, NormUnit)), normal, k)

(* min and max corners of the box of a part, padded when it has a rotation *)
BoxMin(part) ==
    LET half == VScale(part.size, 1, 2)
        m == VSub(part.position, half)
        sz == part.size
        expansion == QuoT((IF sz.x > sz.z THEN sz.x ELSE sz.z) * 2, 10)
    IN  IF part.rotation # 0 THEN Vec(m.x - expansion, m.y, m.z - expansion) ELSE m

BoxMax(part) ==
    LET half == VScale(part.size, 1, 2)
        m == VAdd(part.position, half)
        sz == part.size
        expansion == QuoT((IF sz.x > sz.z THEN sz.x ELSE sz.z) * 2, 10)
    IN  IF part.rotation # 0 THEN Vec(m.x + expansion, m.y, m.z + expansion) ELSE m

(* the corners of every part of a list, computed once *)
Bounds(list) == [k \in 1..Len(list) |-> [min |-> BoxMin(list[k]), max |-> BoxMax(list[k])]]

partBounds == Bounds(parts)

BoxHit(bounds, newPosition) ==
    /\ newPosition.x > bounds.min.x /\ newPosition.x < bounds.max.x
    /\ newPosition.y > bounds.min.y /\ newPosition.y < bounds.max.y
    /\ newPosition.z > bounds.min.z /\ newPosition.z < bounds.max.z

faceNormals ==
    << Vec(-NormUnit, 0, 0), Vec(NormUnit, 0, 0), Vec(0, -NormUnit, 0),
       Vec(0, NormUnit, 0), Vec(0, 0, -NormUnit), Vec(0, 0, NormUnit) >>

BoxContact(part, bounds, newPosition, k) ==
    LET min == bounds.min
        max == bounds.max
        distances == << Abs(newPosition.x - min.x), Abs(newPosition.x - max.x),
                        Abs(newPosition.y - min.y), Abs(newPosition.y - max.y),
                        Abs(newPosition.z - min.z), Abs(newPosition.z - max.z) >>
        minDistance == MinOf({distances[i] : i \in 1..6})
        minIndex == MinOf({i \in 1..6 : distances[i] = minDistance})
        normal == TurnY(faceNormals[minIndex], part.rotation)
    IN  Collision(VAdd(newPosition, VScale(normal, minDistance + shipRadius, NormUnit)),
                  normal, k)

PartHit(part, bounds, newPosition) ==
    IF part.type = "cylinder" THEN CylinderHit(part, newPosition)
    ELSE BoxHit(bounds, newPosition)

(* checkSpaceportCollision over a list of parts: the first part hit decides *)
checkSpaceportCollisionIn(list, bounds, newPosition) ==
    LET hits == {k \in 1..Len(list) : PartHit(list[k], bounds[k], newPosition)}
    IN  IF hits = {} THEN NoCollision
        ELSE \* the first part of the list that is hit
             LET k == MinOf(hits)
             IN  IF list[k].type = "cylinder"
                 THEN CylinderContact(list[k], newPosition, k)
                 ELSE BoxContact(list[k], bounds[k], newPosition, k)

checkSpaceportCollision(newPosition) ==
    checkSpaceportCollisionIn(parts, partBounds, newPosition)

(* a collision response that only halves the velocity *)
ReflectHalved(velocity, normal) == VScale(velocity, restitutionPercent, 100)

(* a collision response that keeps the velocity *)
ReflectNothing(velocity, normal) == velocity

(* the velocity handleSpaceportCollision and handlePlanetCollision leave:
   velocity.sub(normal * (2 * velocity.dot(normal))), then * restitution *)
Reflect(velocity, normal) ==
    LET s == QuoT(2 * Dot(velocity, normal), NormUnit)
    IN  VScale(VSub(velocity, VScale(normal, s, NormUnit)), restitutionPercent, 100)

----------------------------------------------------------------------------
(* Orientation.  ship.rotation is an Euler triple (x, y, 0) in milliradians;
   the quaternion turns the ship's forward (0, 0, -1) and right (1, 0, 0). *)

(* sine and cosine, in NormUnit, of an angle of at most 0.3 rad *)
SmallSin(a) == a - QuoT(a * a * a, 6000000)

SmallCos(a) == NormUnit - QuoT(a * a, 2000)

Quarter(a) ==
    IF a > 2356 THEN 2 ELSE IF a > 785 THEN 1 ELSE IF a >= -785 THEN 0 ELSE -1

Sin(a) ==
    LET q == Quarter(a)
        r == a - q * QuarterTurn
    IN  CASE q = 0 -> SmallSin(r) [] q = 1 -> SmallCos(r)
          [] q = 2 -> -SmallSin(r) [] OTHER -> -SmallCos(r)

Cos(a) ==
    LET q == Quarter(a)
        r == a - q * QuarterTurn
    IN  CASE q = 0 -> SmallCos(r) [] q = 1 -> -SmallSin(r)
          [] q = 2 -> -SmallCos(r) [] OTHER -> SmallSin(r)

Forward(rotation) ==
    Vec(-Sin(rotation.y), QuoT(Cos(rotation.y) * Sin(rotation.x), NormUnit),
        -QuoT(Cos(rotation.y) * Cos(rotation.x), NormUnit))

Right(rotation) ==
    Vec(Cos(rotation.y), QuoT(Sin(rotation.y) * Sin(rotation.x), NormUnit),
        -QuoT(Sin(rotation.y) * Cos(rotation.x), NormUnit))

----------------------------------------------------------------------------
(* The steps of updateLocalPlayer *)

(* the acceleration the held keys give, thrust vectors turned by the ship *)
Thrust(rotation, ks, boost) ==
    LET f == Forward(rotation)
        r == Right(rotation)
    IN  VAdd(VAdd(IF ks.thrustForward THEN VScale(f, acceleration * boost, NormUnit) ELSE Zero3,
                  IF ks.thrustBackward THEN VScale(f, -((acceleration * boost) \div 2), NormUnit)
                  ELSE Zero3),
             VAdd(IF ks.strafeLeft THEN VScale(r, -(strafeAcceleration * boost), NormUnit)
                  ELSE Zero3,
                  IF ks.strafeRight THEN VScale(r, strafeAcceleration * boost, NormUnit)
                  ELSE Zero3))

(* a vector whose three components are NaN: it has no number to offer *)
NaN3 == [nan |-> TRUE]

(* the force of one planet in applyGravitationalForces *)
GravityFrom(planet, position) ==
    LET direction == VSub(planet.position, position)
        distanceSquared == NearSq(direction)
    IN  IF distanceSquared > gravityCutoffSq THEN Zero3
        ELSE IF distanceSquared = 0 THEN NaN3
        ELSE VScale(Normalize(direction), gravityNumerator, distanceSquared)

(* some planet is within the cutoff of applyGravitationalForces *)
InGravity(bodies, position) ==
    \E k \in 1..Len(bodies) : DistSq(bodies[k].position, position) <= gravityCutoffSq

RECURSIVE SumGravity(_, _, _)
SumGravity(bodies, k, position) ==
    IF k > Len(bodies) THEN Zero3
    ELSE VAdd(GravityFrom(bodies[k], position), SumGravity(bodies, k + 1, position))

(* applyGravitationalForces: the planets only, celestialObjects has no sun *)
applyGravitationalForces(bodies, position) == SumGravity(bodies, 1, position)

(* an integration whose drag factor feeds the motion instead of damping it *)
IntegrateAmplified(velocity, acc, deltaTime) ==
    VScale(VAdd(velocity, VScale(acc, deltaTime, DtUnit)), 200 - dragPercent, 100)

(* velocity.add(acceleration * deltaTime * timeStep), then * drag *)
Integrate(velocity, acc, deltaTime) ==
    VScale(VAdd(velocity, VScale(acc, deltaTime, DtUnit)), dragPercent, 100)

(* a maximum-speed rule that always allows the boosted speed *)
ClampBoosted(velocity, maxAllowedSpeed) ==
    IF LengthSq(velocity) > maxSpeed * boostMultiplier * maxSpeed * boostMultiplier
    THEN VScale(velocity, maxSpeed * boostMultiplier, SqrtCeil(LengthSq(velocity)))
    ELSE velocity

(* the maximum-speed rule *)
Clamp(velocity, maxAllowedSpeed) ==
    IF LengthSq(velocity) > maxAllowedSpeed * maxAllowedSpeed
    THEN VScale(velocity, maxAllowedSpeed, SqrtCeil(LengthSq(velocity)))
    ELSE velocity

(* ship.rotateX / ship.rotateY by the pitch and yaw keys *)
Rotate(rotation, ks) ==
    Vec(rotation.x + (IF ks.pitchUp THEN -rotationSpeed ELSE 0)
                   + (IF ks.pitchDown THEN rotationSpeed ELSE 0),
        rotation.y + (IF ks.yawLeft THEN rotationSpeed ELSE 0)
                   + (IF ks.yawRight THEN -rotationSpeed ELSE 0),
        rotation.z)

----------------------------------------------------------------------------
(* Trails *)

maxTrailSegments == 100

(* no trail; drawnBy records who handed a trail its points: updateLocalPlayer
   ("local") or updatePlayers ("remote") *)
NoTrail == [exists |-> FALSE, segments |-> << >>, drawnBy |-> "none"]

(* an updateTrail that, on a full trail, drops the newest point it held *)
updateTrailDropNewest(trail, position) ==
    LET segs == trail.segments
        far == \/ Len(segs) = 0
               \/ DistSq(segs[Len(segs)], position) > minSegmentGap * minSegmentGap
        pushed == IF far THEN Append(segs, position) ELSE segs
    IN  [trail EXCEPT !.exists = TRUE,
                      !.segments = IF Len(pushed) > maxTrailSegments
                                   THEN Append(SubSeq(segs, 1, Len(segs) - 1), position)
                                   ELSE pushed]

(* updateTrail: the trail is created on first use; a point is appended when
   it is more than 1.0 from the last one; beyond the cap the oldest goes *)
updateTrail(trail, position) ==
    LET segs == trail.segments
        far == \/ Len(segs) = 0
               \/ DistSq(segs[Len(segs)], position) > minSegmentGap * minSegmentGap
        pushed == IF far THEN Append(segs, position) ELSE segs
    IN  [trail EXCEPT !.exists = TRUE,
                      !.segments = IF Len(pushed) > maxTrailSegments THEN Tail(pushed)
                                   ELSE pushed]

(* the point of segment start-end closest to the ship, as checkTrailCollision
   finds it *)
ClosestPoint(start, end, shipPosition) ==
    LET line == VSub(end, start)
        lineLength == SqrtCeil(NearSq(line))
        lineDirection == Normalize(line)
        projection == QuoT(Dot(VSub(shipPosition, start), lineDirection), NormUnit)
    IN  IF projection <= 0 THEN start
        ELSE IF projection >= lineLength THEN end
        ELSE VAdd(start, VScale(lineDirection, projection, NormUnit))

SegmentHit(segs, i, shipPosition) ==
    DistSq(shipPosition, ClosestPoint(segs[i], segs[i + 1], shipPosition))
        < (shipRadius + trailRadius) * (shipRadius + trailRadius)

checkTrailCollision(shipPosition, trail) ==
    LET segs == trail.segments
        hits == {i \in 1..(Len(segs) - 1) : SegmentHit(segs, i, shipPosition)}
    IN  IF Len(segs) < 2 \/ hits = {} THEN NoCollision
        ELSE Collision(ClosestPoint(segs[MinOf(hits)], segs[MinOf(hits) + 1], shipPosition),
                       Zero3, MinOf(hits))

----------------------------------------------------------------------------
(* WebSocketManager: the values handed to sendPositionUpdate and the text
   JSON.stringify makes of the message *)

(* the two files that define the class: js/websocket.js, and a later version
   of it *)
Managers == {"websocket.js", "part_001"}

Undefined == [t |-> "undefined"]

Number(n) == [t |-> "number", n |-> n]

Boolean(b) == [t |-> "boolean", b |-> b]

String(s) == [t |-> "string", s |-> s]

(* an object, m its members by name *)
Object(m) == [t |-> "object", m |-> m]

(* the literal { x: v.x, y: v.y, z: v.z } *)
Literal(v) == Object([x |-> Number(v.x), y |-> Number(v.y), z |-> Number(v.z)])

(* the six arguments position.x, ..., rotation.z of a ship *)
Components(ship) ==
    << Number(ship.position.x), Number(ship.position.y), Number(ship.position.z),
       Number(ship.rotation.x), Number(ship.rotation.y), Number(ship.rotation.z) >>

(* a parameter of a call: undefined when the call passes fewer arguments *)
Argument(args, k) == IF k <= Len(args) THEN args[k] ELSE Undefined

(* object[name] *)
Get(object, name) ==
    IF object.t = "object" /\ name \in DOMAIN object.m THEN object.m[name] ELSE Undefined

(* JSON.stringify: a member whose value is undefined is left out *)
RECURSIVE JsonStringify(_)
JsonStringify(value) ==
    CASE value.t = "number" -> [j |-> "number", n |-> value.n]
      [] value.t = "boolean" -> [j |-> IF value.b THEN "true" ELSE "false"]
      [] value.t = "string" -> [j |-> "string", s |-> value.s]
      [] value.t = "object" ->
           [j |-> "object",
            m |-> [name \in {k \in DOMAIN value.m : value.m[k].t # "undefined"} |->
                      JsonStringify(value.m[name])]]

NoMessage == [j |-> "none"]

(* JSON.parse *)
RECURSIVE JsonParse(_)
JsonParse(text) ==
    CASE text.j = "number" -> Number(text.n)
      [] text.j = "true" -> Boolean(TRUE)
      [] text.j = "false" -> Boolean(FALSE)
      [] text.j = "string" -> String(text.s)
      [] text.j = "object" -> Object([name \in DOMAIN text.m |-> JsonParse(text.m[name])])

(* sendMessage(data) on an open socket: socket.send(JSON.stringify(data)) *)
sendMessage(data) == JsonStringify(data)

(* sendPositionUpdate.  js/websocket.js defines the method twice and the
   second definition, of six components, is the one the class keeps; the
   later version takes (position, rotation, trailActive = false). *)
sendPositionUpdate(manager, args) ==
    IF manager = "websocket.js"
    THEN sendMessage(Object(
             [type |-> String("updatePosition"),
              position |-> Object([x |-> Argument(args, 1), y |-> Argument(args, 2),
                                   z |-> Argument(args, 3)]),
              rotation |-> Object([x |-> Argument(args, 4), y |-> Argument(args, 5),
                                   z |-> Argument(args, 6)])]))
    ELSE sendMessage(Object(
             [type |-> String("updatePosition"),
              position |-> Argument(args, 1),
              rotation |-> Argument(args, 2),
              trailActive |-> IF Argument(args, 3).t = "undefined" THEN Boolean(FALSE)
                              ELSE Argument(args, 3)]))

(* the relay's handler of updatePosition: what it keeps of the player *)
updatePosition(data) ==
    [position |-> Get(data, "position"), rotation |-> Get(data, "rotation")]

----------------------------------------------------------------------------
(* State *)

Ids == {"L", "R"}

VARIABLES
    celestialObjects, \* GameManager.celestialObjects.planets
    wsManager,      \* window.wsManager: the file its class was loaded from
    localPlayerId,  \* GameManager.localPlayerId
    playerShips,    \* id -> the ship object: position, rotation, visible
    shipPhysics,    \* id -> the physics record of the ship
    players,        \* the ids that have an entry in GameManager.players
    playerTrails,   \* id -> trail
    keyState,       \* GameManager.keyState
    crashScreen,    \* "absent", or the display style of the crash screen
    connected,      \* wsManager.isConnected()
    serverPlayers,  \* the remote ids the relay lists
    ticks,          \* animation frames so far
    events,         \* keyboard and network events so far
    relay,          \* the relay server: its clients map and its players object
    loginManager,   \* LoginManager: playerId, username, the login requests it sent
    initialized,    \* GameManager.initialized
    pendingFrame,   \* the animate whose call the browser holds for the next frame, or ""
    channel,        \* the WebSocketManager: its flags, its socket, its polls and timers
    last            \* what the latest handler did

vars == << channel, pendingFrame, relay, loginManager, initialized, celestialObjects, wsManager, localPlayerId, playerShips, shipPhysics, players, playerTrails, keyState,
           crashScreen, connected, serverPlayers, ticks, events, last >>

(* the animate of the GameManager that runs, and the other animate methods of
   the repository: of the first GameManager of login.js and of the backup *)
mainLoop == "login.js:3054"

Loops == {mainLoop, "login.js:1107", "backup/game.js:1275"}

(* an animate whose request for the next frame is its last statement *)
animateRequestsLast(loop, threw) == IF threw THEN "" ELSE loop

(* the frame animate has requested when it is left, by a return or by an
   exception of the tick: requestAnimationFrame is its first statement *)
animateRequests(loop, threw) == loop

NoShip == [exists |-> FALSE, position |-> Zero3, rotation |-> Zero3, visible |-> FALSE]

Ship(pos, rot) == [exists |-> TRUE, position |-> pos, rotation |-> rot, visible |-> TRUE]

(* a physics record: updateLocalPlayer creates it with acceleration,
   rotationVelocity, lastPosition and lastUpdate (tickFields); restartGame
   creates or completes it with angularVelocity *)
NoPhysics ==
    [exists |-> FALSE, velocity |-> Zero3, lastPosition |-> Zero3,
     tickFields |-> FALSE, angularVelocity |-> FALSE]

(* a record with the two fields restartGame gives a new one *)
TickPhysicsBare(pos) ==
    [exists |-> TRUE, velocity |-> Zero3, lastPosition |-> pos,
     tickFields |-> FALSE, angularVelocity |-> TRUE]

TickPhysics(pos) ==
    [exists |-> TRUE, velocity |-> Zero3, lastPosition |-> pos,
     tickFields |-> TRUE, angularVelocity |-> FALSE]

noKeys ==
    [thrustForward |-> FALSE, thrustBackward |-> FALSE, strafeLeft |-> FALSE,
     strafeRight |-> FALSE, pitchUp |-> FALSE, pitchDown |-> FALSE, yawLeft |-> FALSE,
     yawRight |-> FALSE, boost |-> FALSE, reset |-> FALSE, trailActive |-> FALSE]

NoOp ==
    [op |-> "init", deltaTime |-> 0, boost |-> FALSE, before |-> Zero3, clamped |-> Zero3,
     newPosition |-> Zero3, solid |-> "none", contact |-> NoCollision, trailHit |-> FALSE,
     trailContact |-> Zero3, trailDrawnBy |-> "none", defined |-> TRUE, free |-> FALSE, sent |-> FALSE, message |-> NoMessage,
     threw |-> FALSE, ran |-> FALSE]

(* the relay before any client has connected: clients is the Map of the
   server from a client to the id of its player, players its players object,
   and reported what each player's client has last reported *)
NoEntry == [exists |-> FALSE, position |-> Undefined, rotation |-> Undefined]

NoRelay ==
    [server |-> "server.js", clients |-> {}, players |-> [id \in Ids |-> NoEntry],
     reported |-> [id \in Ids |-> NoEntry], crashed |-> {}]

(* the WebSocketManager of a development host: its socket open with the
   heartbeat that onOpen starts, or no connection; it polls nothing *)
WebSocketManager(open) ==
    [isHttpFallback |-> FALSE, connected |-> open,
     socket |-> IF open THEN "open" ELSE "closed",
     polls |-> 0, heartbeats |-> IF open THEN 1 ELSE 0]

(* the LoginManager after loginSuccess(playerId, username) *)
LoggedIn(playerId) ==
    [playerId |-> playerId, username |-> << "a", "b", "c" >>, requests |-> << >>,
     answered |-> 0]

(* init(): the local player is added at (0, 100, 0), tilted down by 0.2 rad *)
spawnPosition == Vec(0, 100 * Unit, 0)

spawnRotation == Vec(-200, 0, 0)

(* a physics record in flight *)
FlightPhysics(pos, v) == [TickPhysics(pos) EXCEPT !.velocity = v]

(* The states a session is observed from: the state init() leaves, and two
   moments of a flight with no key held: the ship drifting backward at 0.5
   just outside the first planet, and drifting at 0.5 toward the control
   tower of the spaceport, with either version of the WebSocketManager. *)
Starts ==
    { [manager |-> "websocket.js",
       ship |-> Ship(spawnPosition, spawnRotation), physics |-> NoPhysics],
      [manager |-> "websocket.js",
       ship |-> Ship(Vec(200 * Unit, 0, -14455), Vec(0, 2 * QuarterTurn, 0)),
       physics |-> FlightPhysics(Vec(200 * Unit, 0, -14455), Vec(0, 0, -50))] }
    \cup
    { [manager |-> manager,
       ship |-> Ship(Vec(9030, 20 * Unit, -70 * Unit), Zero3),
       physics |-> FlightPhysics(Vec(9030, 20 * Unit, -70 * Unit), Vec(-50, 0, 0))] :
         manager \in Managers }

Init ==
    /\ celestialObjects = planets
    /\ relay = NoRelay
    /\ loginManager = LoggedIn("L")
    /\ initialized = TRUE
    /\ pendingFrame = mainLoop
    /\ localPlayerId = "L"
    /\ \E start \in Starts :
          /\ wsManager = start.manager
          /\ playerShips = [id \in Ids |-> IF id = "L" THEN start.ship ELSE NoShip]
          /\ shipPhysics = [id \in Ids |-> IF id = "L" THEN start.physics ELSE NoPhysics]
    /\ players = {"L"}
    /\ playerTrails = [id \in Ids |-> NoTrail]
    /\ keyState = noKeys
    /\ crashScreen = "absent"
    /\ connected = TRUE
    /\ channel = WebSocketManager(TRUE)
    /\ serverPlayers = {}
    /\ ticks = 0
    /\ events = 0
    /\ last = NoOp

----------------------------------------------------------------------------
(* animate -> updateLocalPlayer *)

(* the time since the previous frame, in tenths of a 60 Hz frame *)
Elapsed == {10, 40}

DeltaTime(elapsed) == Min2(elapsed, maxDeltaTime)

(* a tick that asks the planets before the spaceport *)
SolidPlanetFirst(bodies, newPosition) ==
    LET planetCollision == checkPlanetCollision(bodies, newPosition)
    IN  IF planetCollision.collided THEN [kind |-> "planet", contact |-> planetCollision]
        ELSE LET spaceportCollision == checkSpaceportCollision(newPosition)
             IN  IF spaceportCollision.collided
                 THEN [kind |-> "spaceport", contact |-> spaceportCollision]
                 ELSE [kind |-> "none", contact |-> NoCollision]

(* what updateLocalPlayer computes from the state once the physics record is
   complete: the velocity after the maximum-speed rule, the tentative
   position, the collision found and the position and velocity it leaves *)
Motion(bodies, ship, physics, ks, deltaTime) ==
    LET boost == IF ks.boost THEN boostMultiplier ELSE 1
        acc == VAdd(Thrust(ship.rotation, ks, boost),
                    applyGravitationalForces(bodies, ship.position))
    IN  LET velocity == Clamp(Integrate(physics.velocity, acc, deltaTime), maxSpeed * boost)
        IN  [velocity |-> velocity,
             newPosition |-> VAdd(ship.position, VScale(velocity, deltaTime, DtUnit))]

Solid(bodies, newPosition) ==
    LET spaceportCollision == checkSpaceportCollision(newPosition)
    IN  IF spaceportCollision.collided THEN [kind |-> "spaceport", contact |-> spaceportCollision]
        ELSE LET planetCollision == checkPlanetCollision(bodies, newPosition)
             IN  IF planetCollision.collided
                 THEN [kind |-> "planet", contact |-> planetCollision]
                 ELSE [kind |-> "none", contact |-> NoCollision]

(* updateLocalPlayer once the physics record is complete *)
TickMove(id, deltaTime) ==
    \E m \in {Motion(celestialObjects, playerShips[id], shipPhysics[id], keyState, deltaTime)} :
    \E hit \in {Solid(celestialObjects, m.newPosition)} :
    \E position \in {IF hit.kind = "none" THEN m.newPosition ELSE hit.contact.position} :
    LET ship == playerShips[id]
        physics == shipPhysics[id]
        \* players[localPlayerId].color of an absent entry raises
        throws == keyState.trailActive /\ id \notin players
        ownTrail == IF keyState.trailActive /\ ~throws
                    THEN [updateTrail(playerTrails[id], position) EXCEPT !.drawnBy = "local"]
                    ELSE playerTrails[id]
        positionChanged == /\ ~throws
                           /\ DistSq(physics.lastPosition, position)
                                 > sendThreshold * sendThreshold
        \* the trails of the other players that the ship touches
        touched == {o \in Ids \ {id} :
                      /\ playerTrails[o].exists
                      /\ checkTrailCollision(position, playerTrails[o]).collided}
    IN  \E trailHit \in {~throws /\ touched # {}} :
        /\ playerShips' = [playerShips EXCEPT ![id] =
              [exists |-> TRUE, position |-> position,
               rotation |-> Rotate(ship.rotation, keyState),
               visible |-> ship.visible /\ hit.kind = "none" /\ ~trailHit]]
        /\ shipPhysics' = [shipPhysics EXCEPT ![id] =
              [physics EXCEPT !.velocity = IF hit.kind = "none" THEN m.velocity
                                           ELSE Reflect(m.velocity, hit.contact.normal),
                              !.lastPosition = IF positionChanged THEN position ELSE @]]
        /\ playerTrails' = [playerTrails EXCEPT ![id] = IF trailHit THEN NoTrail ELSE ownTrail]
        /\ crashScreen' = IF hit.kind # "none" \/ trailHit THEN "flex" ELSE crashScreen
        /\ last' = [op |-> "tick", deltaTime |-> deltaTime, defined |-> TRUE,
                    boost |-> keyState.boost,
                    before |-> physics.velocity, clamped |-> m.velocity,
                    newPosition |-> m.newPosition, solid |-> hit.kind,
                    contact |-> hit.contact, trailHit |-> trailHit,
                    trailContact |->
                        IF trailHit
                        THEN checkTrailCollision(position,
                                 playerTrails[CHOOSE o \in touched : TRUE]).position
                        ELSE Zero3,
                    trailDrawnBy |->
                        IF trailHit THEN playerTrails[CHOOSE o \in touched : TRUE].drawnBy
                        ELSE "none",
                    free |-> keyState = noKeys /\ ~InGravity(celestialObjects, ship.position),
                    sent |-> positionChanged /\ connected,
                    message |->
                        IF positionChanged /\ connected
                        THEN sendPositionUpdate(wsManager,
                                 << Literal(position),
                                    Literal(Rotate(ship.rotation, keyState)),
                                    Boolean(keyState.trailActive) >>)
                        ELSE NoMessage,
                    threw |-> throws, ran |-> TRUE]

(* the number of frames observed: of the game, or of the test scenario *)
TickLimit == IF celestialObjects = planets THEN MaxTicks ELSE MaxScenarioTicks

(* one animation frame: updateLocalPlayer, which returns at once without a
   local ship, creates the physics record when there is none, and raises at
   physics.acceleration.set when the record has no acceleration *)
Tick(elapsed) ==
    /\ ticks < TickLimit
    /\ pendingFrame = mainLoop
    /\ ticks' = ticks + 1
    /\ UNCHANGED << channel, relay, loginManager, initialized, celestialObjects, wsManager, localPlayerId, players, keyState, connected, serverPlayers, events >>
    /\ IF localPlayerId = "" \/ ~playerShips[localPlayerId].exists
       THEN /\ UNCHANGED << playerShips, shipPhysics, playerTrails, crashScreen >>
            /\ last' = [NoOp EXCEPT !.op = "tick"]
       ELSE IF ~shipPhysics[localPlayerId].exists
       THEN /\ shipPhysics' = [shipPhysics EXCEPT ![localPlayerId] =
                  TickPhysics(playerShips[localPlayerId].position)]
            /\ UNCHANGED << playerShips, playerTrails, crashScreen >>
            /\ last' = [NoOp EXCEPT !.op = "tick"]
       ELSE IF ~shipPhysics[localPlayerId].tickFields
       THEN /\ UNCHANGED << playerShips, shipPhysics, playerTrails, crashScreen >>
            /\ last' = [NoOp EXCEPT !.op = "tick", !.threw = TRUE, !.defined = FALSE]
       ELSE TickMove(localPlayerId, DeltaTime(elapsed))
    /\ pendingFrame' = animateRequests(mainLoop, last'.threw)

----------------------------------------------------------------------------
(* Keyboard *)

Codes == {"KeyW", "ShiftLeft", "ArrowLeft", "Space", "KeyR"}

updateKeyState(ks, code, pressed) ==
    CASE code = "KeyW" -> [ks EXCEPT !.thrustForward = pressed]
      [] code = "KeyS" -> [ks EXCEPT !.thrustBackward = pressed]
      [] code = "KeyA" -> [ks EXCEPT !.strafeLeft = pressed]
      [] code = "KeyD" -> [ks EXCEPT !.strafeRight = pressed]
      [] code = "ArrowUp" -> [ks EXCEPT !.pitchUp = pressed]
      [] code = "ArrowDown" -> [ks EXCEPT !.pitchDown = pressed]
      [] code = "ArrowLeft" -> [ks EXCEPT !.yawLeft = pressed]
      [] code = "ArrowRight" -> [ks EXCEPT !.yawRight = pressed]
      [] code \in {"ShiftLeft", "ShiftRight"} -> [ks EXCEPT !.boost = pressed]
      [] code = "KeyR" -> [ks EXCEPT !.reset = pressed]
      [] code = "Space" -> [ks EXCEPT !.trailActive = pressed]
      [] OTHER -> ks

(* the random draws of resetPlayerPosition: the index of the launch position
   and the values Math.random() * 0.5 - 0.25 gives the two horizontal
   components of the velocity *)
Draws ==
    { [launchIndex |-> 1, kick |-> Vec(-25, 0, -25)], [launchIndex |-> 4, kick |-> Vec(24, 0, 10)] }

(* a reset that also shows the ship *)
resetPlayerPositionShown(launchIndex, kick) ==
    /\ localPlayerId # ""
    /\ playerShips' = [playerShips EXCEPT ![localPlayerId] =
          [@ EXCEPT !.position = launchPositions[launchIndex].position, !.visible = TRUE]]
    /\ shipPhysics' = [shipPhysics EXCEPT ![localPlayerId] = [@ EXCEPT !.velocity = kick]]
    /\ last' = [NoOp EXCEPT !.op = "resetPlayerPosition", !.ran = TRUE]

(* resetPlayerPosition: a random launch position and a small random velocity;
   physics.angularVelocity.set raises on a record that has no angularVelocity,
   and then neither the camera nor the server is updated *)
resetPlayerPosition(launchIndex, kick) ==
    LET id == localPlayerId
    IN  IF id = "" \/ ~playerShips[id].exists \/ ~shipPhysics[id].exists
        THEN /\ UNCHANGED << playerShips, shipPhysics >>
             /\ last' = [NoOp EXCEPT !.op = "resetPlayerPosition"]
        ELSE /\ playerShips' = [playerShips EXCEPT ![id] =
                   [@ EXCEPT !.position = launchPositions[launchIndex].position,
                             !.rotation = Vec(0, launchPositions[launchIndex].rotation.y, 0)]]
             /\ shipPhysics' = [shipPhysics EXCEPT ![id] = [@ EXCEPT !.velocity = kick]]
             /\ last' = [NoOp EXCEPT !.op = "resetPlayerPosition", !.ran = TRUE,
                                     !.threw = ~shipPhysics[id].angularVelocity,
                                     !.sent = shipPhysics[id].angularVelocity /\ connected,
                                     !.message =
                                         IF shipPhysics[id].angularVelocity /\ connected
                                         THEN sendPositionUpdate(wsManager,
                                                  Components(playerShips'[id]))
                                         ELSE NoMessage]

(* the keydown listener: updateKeyState(code, true) *)
KeyDown(code, launchIndex, kick) ==
    /\ events < MaxEvents
    /\ events' = events + 1
    /\ keyState' = updateKeyState(keyState, code, TRUE)
    /\ IF code = "KeyR"
       THEN resetPlayerPosition(launchIndex, kick)
       ELSE /\ UNCHANGED << playerShips, shipPhysics >>
            /\ last' = [NoOp EXCEPT !.op = "keydown"]
    /\ UNCHANGED << channel, pendingFrame, relay, loginManager, initialized, celestialObjects, wsManager, localPlayerId, players, playerTrails, crashScreen, connected,
                    serverPlayers, ticks >>

(* the keyup listener: updateKeyState(code, false); releasing Space empties
   the local trail *)
KeyUp(code) ==
    /\ events < MaxEvents
    /\ events' = events + 1
    /\ keyState' = updateKeyState(keyState, code, FALSE)
    /\ playerTrails' =
          IF code = "Space" /\ localPlayerId # "" /\ playerTrails[localPlayerId].exists
          THEN [playerTrails EXCEPT ![localPlayerId].segments = << >>]
          ELSE playerTrails
    /\ last' = [NoOp EXCEPT !.op = "keyup"]
    /\ UNCHANGED << channel, pendingFrame, relay, loginManager, initialized, celestialObjects, wsManager, localPlayerId, playerShips, shipPhysics, players, crashScreen,
                    connected, serverPlayers, ticks >>

----------------------------------------------------------------------------
(* The crash screen *)

(* a restart on the first launch position *)
restartOnPad == launchPositions[1].position

restartPosition == Vec(0, 50 * Unit, 0)

(* restartGame, the handler of the crash screen's button *)
restartGame ==
    /\ crashScreen = "flex"
    /\ crashScreen' = "none"
    /\ IF localPlayerId = ""
       THEN /\ UNCHANGED << playerShips, shipPhysics >>
            /\ last' = [NoOp EXCEPT !.op = "restartGame"]
       ELSE /\ shipPhysics' = [shipPhysics EXCEPT ![localPlayerId] =
                  IF @.exists
                  THEN [@ EXCEPT !.velocity = Zero3, !.angularVelocity = TRUE]
                  ELSE [exists |-> TRUE, velocity |-> Zero3, lastPosition |-> Zero3,
                        tickFields |-> FALSE, angularVelocity |-> TRUE]]
            /\ playerShips' = [playerShips EXCEPT ![localPlayerId] =
                  IF @.exists
                  THEN [@ EXCEPT !.position = restartPosition, !.rotation = Zero3,
                                 !.visible = TRUE]
                  ELSE Ship(restartPosition, Zero3)]
            /\ last' = [NoOp EXCEPT !.op = "restartGame", !.ran = TRUE, !.sent = connected,
                                    !.message =
                                        IF connected
                                        THEN sendPositionUpdate(wsManager,
                                                 Components(playerShips'[localPlayerId]))
                                        ELSE NoMessage]
    /\ UNCHANGED << channel, pendingFrame, relay, loginManager, initialized, celestialObjects, wsManager, localPlayerId, players, playerTrails, keyState, connected,
                    serverPlayers, ticks, events >>

----------------------------------------------------------------------------
(* Messages of the relay.  The relay lists a player from its login to the
   close of its socket; it announces a login (newPlayer) and a close
   (playerLeft) to the other clients and sends every client the positions of
   all the players it lists. *)

(* what the relay holds for a remote player *)
RemoteData ==
    { [position |-> Vec(0, 100 * Unit, -300), rotation |-> Zero3, trailActive |-> FALSE],
      [position |-> Vec(0, 100 * Unit, -1300), rotation |-> Zero3, trailActive |-> TRUE] }

(* Vector3.lerp(target, 0.2) *)
Lerp(v, target) == VAdd(v, VScale(VSub(target, v), lerpPercent, 100))

(* the newPlayer handler: addPlayer(data.player) *)
RecvNewPlayer(id, data) ==
    /\ connected
    /\ events < MaxEvents
    /\ id # localPlayerId
    /\ id \notin serverPlayers
    /\ serverPlayers' = serverPlayers \cup {id}
    /\ events' = events + 1
    /\ players' = players \cup {id}
    /\ playerShips' = IF playerShips[id].exists THEN playerShips
                      ELSE [playerShips EXCEPT ![id] = Ship(data.position, data.rotation)]
    /\ last' = [NoOp EXCEPT !.op = "newPlayer"]
    /\ UNCHANGED << channel, pendingFrame, relay, loginManager, initialized, celestialObjects, wsManager, localPlayerId, shipPhysics, playerTrails, keyState, crashScreen,
                    connected, ticks >>

(* the positions handler: updatePlayers(data.players); the message lists the
   receiver and every remote player of the relay, each remote one with data *)
RecvPositions(data) ==
    LET listed == serverPlayers \cup {localPlayerId}
        known(id) == id \in players
        moved(id) == id \in listed /\ known(id) /\ id # localPlayerId /\ playerShips[id].exists
        lerped(id) == [playerShips[id] EXCEPT !.position = Lerp(@, data.position),
                                              !.rotation = Lerp(@, data.rotation)]
        ships == [id \in Ids |->
                    IF id \in listed /\ ~known(id)
                    THEN IF playerShips[id].exists THEN playerShips[id]
                         ELSE Ship(data.position, data.rotation)
                    ELSE IF moved(id) THEN lerped(id) ELSE playerShips[id]]
        trails == [id \in Ids |->
                    IF moved(id)
                    THEN IF data.trailActive
                         THEN [updateTrail(playerTrails[id], ships[id].position)
                                  EXCEPT !.drawnBy = "remote"]
                         ELSE [playerTrails[id] EXCEPT !.segments = << >>]
                    ELSE playerTrails[id]]
        gone == {id \in players : id \notin listed /\ id # localPlayerId}
    IN  /\ connected
        /\ events < MaxEvents
        /\ events' = events + 1
        \* handleCrash(id) then removePlayer(id) for every player no longer listed
        /\ playerShips' = [id \in Ids |-> IF id \in gone THEN NoShip ELSE ships[id]]
        /\ playerTrails' = [id \in Ids |->
              IF id \in gone /\ ships[id].exists THEN NoTrail ELSE trails[id]]
        /\ shipPhysics' = [id \in Ids |-> IF id \in gone THEN NoPhysics ELSE shipPhysics[id]]
        /\ players' = (players \cup listed) \ gone
        /\ last' = [NoOp EXCEPT !.op = "positions"]
        /\ UNCHANGED << channel, pendingFrame, relay, loginManager, initialized, celestialObjects, wsManager, localPlayerId, keyState, crashScreen, connected, serverPlayers, ticks >>

(* the playerLeft handler: removePlayer(data.playerId), for the id of a
   remote player or for the receiver's own id; neither the handler nor
   removePlayer compares the id with localPlayerId *)
RecvPlayerLeft(id) ==
    /\ connected
    /\ events < MaxEvents
    /\ id \in serverPlayers \cup {localPlayerId}
    /\ serverPlayers' = serverPlayers \ {id}
    /\ events' = events + 1
    /\ IF id \in players
       THEN /\ playerShips' = [playerShips EXCEPT ![id] = NoShip]
            /\ shipPhysics' = [shipPhysics EXCEPT ![id] = NoPhysics]
            /\ players' = players \ {id}
       ELSE UNCHANGED << playerShips, shipPhysics, players >>
    /\ last' = [NoOp EXCEPT !.op = "playerLeft"]
    /\ UNCHANGED << channel, pendingFrame, relay, loginManager, initialized, celestialObjects, wsManager, localPlayerId, playerTrails, keyState, crashScreen, connected, ticks >>

(* socket.onclose *)
onClose ==
    /\ connected
    /\ events < MaxEvents
    /\ events' = events + 1
    /\ connected' = FALSE
    /\ channel' = WebSocketManager(FALSE)
    /\ last' = [NoOp EXCEPT !.op = "close"]
    /\ UNCHANGED << pendingFrame, relay, loginManager, initialized, celestialObjects, wsManager, localPlayerId, playerShips, shipPhysics, players, playerTrails,
                    keyState, crashScreen, serverPlayers, ticks >>

Next ==
    \/ \E elapsed \in Elapsed : Tick(elapsed)
    \/ \E code \in Codes \ {"KeyR"} : KeyDown(code, 1, Zero3)
    \/ \E draw \in Draws : KeyDown("KeyR", draw.launchIndex, draw.kick)
    \/ \E code \in Codes : KeyUp(code)
    \/ restartGame
    \/ \E id \in Ids, data \in RemoteData : RecvNewPlayer(id, data)
    \/ \E data \in RemoteData : RecvPositions(data)
    \/ \E id \in serverPlayers : RecvPlayerLeft(id)
    \/ onClose

Spec == Init /\ [][Next]_vars

----------------------------------------------------------------------------
(* Properties of the session *)

local == playerShips[localPlayerId]

localPhysics == shipPhysics[localPlayerId]

TickRan == last.op = "tick" /\ last.ran

AllowedSpeed(boost) == maxSpeed * (IF boost THEN boostMultiplier ELSE 1)

(* C1: after the clamp of a tick, and at the end of the tick, the speed is at
   most maxSpeed, times boostMultiplier when boost is held in that tick; the
   speed never exceeds maxSpeed * boostMultiplier *)
C1_SpeedBound ==
    /\ TickRan =>
          /\ LengthSq(last.clamped) <= AllowedSpeed(last.boost) * AllowedSpeed(last.boost)
          /\ LengthSq(localPhysics.velocity)
                <= AllowedSpeed(last.boost) * AllowedSpeed(last.boost)
    /\ \A id \in Ids :
          LengthSq(shipPhysics[id].velocity)
            <= maxSpeed * boostMultiplier * maxSpeed * boostMultiplier

(* a tick without boost that started above maxSpeed, after boosted ticks *)
C1_Witness ==
    /\ TickRan /\ ~last.boost
    /\ LengthSq(last.before) > maxSpeed * maxSpeed
    /\ LengthSq(localPhysics.velocity) <= maxSpeed * maxSpeed

Crashed == local.exists /\ ~local.visible /\ crashScreen = "flex"

Flying == local.exists /\ local.visible /\ crashScreen # "flex"

(* C2: the ship is Flying or Crashed; a step that shows a hidden ship or
   hides the crash screen is a step of restartGame, and it leads from Crashed
   to Flying *)
C2_OnlyRestartRevives ==
    [][/\ (Flying \/ Crashed)
       /\ ((~local.visible /\ local'.visible) \/ (crashScreen = "flex" /\ crashScreen' # "flex"))
            => (last'.op = "restartGame" /\ Crashed /\ Flying')]_vars

(* the R key pressed on a crashed ship: the ship has been moved to a launch
   position and is still hidden behind the crash screen *)
C2_Witness ==
    /\ last.op = "resetPlayerPosition" /\ last.ran
    /\ Crashed
    /\ \E k \in 1..Len(launchPositions) : local.position = launchPositions[k].position

Restarted == last.op = "restartGame" /\ last.ran

(* C3 as claimed: after restartGame the velocity and the angular velocity are
   zero and the ship is on one of the launch positions *)
C3_Original ==
    Restarted =>
        /\ localPhysics.velocity = Zero3
        /\ localPhysics.angularVelocity
        /\ \E k \in 1..Len(launchPositions) : local.position = launchPositions[k].position

(* C3: after restartGame the velocity and the angular velocity are zero and
   the ship is at the default point (0, 50, 0), launch positions or not *)
C3_RestartAtDefault ==
    Restarted =>
        /\ localPhysics.velocity = Zero3
        /\ localPhysics.angularVelocity
        /\ local.position = Vec(0, 5000, 0)

(* a restart of a ship that crashed while moving, with launch positions defined *)
C3_Witness ==
    /\ Restarted /\ Flying
    /\ Len(launchPositions) > 0
    /\ last.op = "restartGame" /\ local.position = Vec(0, 5000, 0)

(* twice v' against v - 2 (v.n) n, component c, within the rounding *)
ReflectedBy(after, before, normal) ==
    LET d == QuoT(2 * Dot(before, normal), NormUnit)
    IN  /\ Abs(2 * after.x * NormUnit - (before.x * NormUnit - d * normal.x)) <= 3 * NormUnit
        /\ Abs(2 * after.y * NormUnit - (before.y * NormUnit - d * normal.y)) <= 3 * NormUnit
        /\ Abs(2 * after.z * NormUnit - (before.z * NormUnit - d * normal.z)) <= 3 * NormUnit

(* C4 as claimed: without a hit the tentative position is committed; on any
   hit, a trail included, the ship is at the contact point and the velocity
   is the reflected one, halved *)
C4_Original ==
    TickRan =>
        /\ (last.solid = "none" /\ ~last.trailHit) => local.position = last.newPosition
        /\ last.solid # "none" =>
              /\ local.position = last.contact.position
              /\ ReflectedBy(localPhysics.velocity, last.clamped, last.contact.normal)
        /\ (last.solid = "none" /\ last.trailHit) =>
              /\ local.position = last.trailContact
              /\ local.position # last.newPosition

(* C4: without a hit of a planet or of a spaceport part the tentative
   position is committed and the velocity kept, whether a trail is hit or
   not; on a hit of a planet or of a spaceport part the ship is at the contact
   point and the velocity is the reflected one, halved *)
C4_CommitOrSnap ==
    TickRan =>
        /\ last.solid = "none" =>
              /\ local.position = last.newPosition
              /\ localPhysics.velocity = last.clamped
        /\ last.solid # "none" =>
              /\ local.position = last.contact.position
              /\ ReflectedBy(localPhysics.velocity, last.clamped, last.contact.normal)

(* a tick that hit a spaceport part with a velocity that the reflection changes *)
C4_Witness ==
    /\ TickRan /\ last.solid = "spaceport"
    /\ local.position = last.contact.position
    /\ local.position # last.newPosition
    /\ localPhysics.velocity # last.clamped

----------------------------------------------------------------------------
(* The collision functions on their own: a tentative position and a velocity
   are drawn, then checkPlanetCollision with handlePlanetCollision, or
   checkSpaceportCollision with handleSpaceportCollision, is applied to them. *)

(* directions, in fifths *)
Fifths == {Vec(5, 0, 0), Vec(0, 0, -5), Vec(0, 5, 0), Vec(3, 4, 0), Vec(0, -4, 3), Vec(-4, 0, -3)}

(* points around every planet: its centre, its surface, and just inside, on
   and just outside the sphere of radius bodyRadius + shipRadius *)
PlanetProbes ==
    { VAdd(planets[k].position, VScale(u, d, 5)) :
        k \in 1..Len(planets), u \in Fifths,
        d \in UNION { {0, planets[j].radius, planets[j].radius + shipRadius - 5,
                       planets[j].radius + shipRadius, planets[j].radius + shipRadius + 5}
                     : j \in 1..Len(planets) } }

(* points in and around the control tower and the launch ramps *)
SpaceportProbes ==
    { Vec(7900, 1500, -5800), Vec(7000, 1500, -5001), Vec(7000, 1500, -5000),
      Vec(7000, 1500, -7000), Vec(5800, 3000, -7900),
      Vec(9000, 300, 2900), Vec(8300, 300, 2000), Vec(9000, 600, 2000),
      Vec(2000, 300, 10300), Vec(900, 300, 9000), Vec(-9000, 300, -2000 - 1300),
      Vec(-2000, 300, -9000 + 1350) }

ProbeVelocities == {Vec(0, 0, -100), Vec(100, -50, 200), Vec(-400, 300, 0), Vec(50, 50, 50)}

InitResolve ==
    /\ celestialObjects = planets
    /\ relay = NoRelay
    /\ loginManager = LoggedIn("L")
    /\ initialized = TRUE
    /\ pendingFrame = mainLoop
    /\ wsManager = "websocket.js"
    /\ localPlayerId = "L"
    /\ playerShips = [id \in Ids |-> IF id = "L" THEN Ship(spawnPosition, Zero3) ELSE NoShip]
    /\ \E v \in ProbeVelocities :
          shipPhysics = [id \in Ids |-> IF id = "L" THEN FlightPhysics(spawnPosition, v)
                                       ELSE NoPhysics]
    /\ players = {"L"}
    /\ playerTrails = [id \in Ids |-> NoTrail]
    /\ keyState = noKeys
    /\ crashScreen = "absent"
    /\ connected = TRUE
    /\ channel = WebSocketManager(TRUE)
    /\ serverPlayers = {}
    /\ ticks = 0
    /\ events = 0
    /\ \E p \in PlanetProbes \cup SpaceportProbes :
          last = [NoOp EXCEPT !.op = "probe", !.newPosition = p]

(* handleSpaceportCollision / handlePlanetCollision on the local ship *)
handleCollision(check, kind, collision) ==
    /\ playerShips' = [playerShips EXCEPT ![localPlayerId] =
          [@ EXCEPT !.visible = FALSE, !.position = collision.position]]
    /\ shipPhysics' = [shipPhysics EXCEPT ![localPlayerId] =
          [@ EXCEPT !.velocity = Reflect(@, collision.normal)]]
    /\ crashScreen' = "flex"
    /\ last' = [last EXCEPT !.op = check, !.ran = TRUE, !.solid = kind,
                            !.before = localPhysics.velocity, !.contact = collision]

Missed(check) ==
    /\ last' = [last EXCEPT !.op = check, !.ran = TRUE, !.before = localPhysics.velocity]
    /\ UNCHANGED << playerShips, shipPhysics, crashScreen >>

(* checkPlanetCollision, and handlePlanetCollision on a hit *)
ResolvePlanet ==
    /\ last.op = "probe"
    /\ \E collision \in {checkPlanetCollision(celestialObjects, last.newPosition)} :
          IF collision.collided
          THEN handleCollision("checkPlanetCollision", "planet", collision)
          ELSE Missed("checkPlanetCollision")
    /\ UNCHANGED << channel, pendingFrame, relay, loginManager, initialized, celestialObjects, wsManager, localPlayerId, players, playerTrails, keyState,
                    connected, serverPlayers, ticks, events >>

(* checkSpaceportCollision, and handleSpaceportCollision on a hit *)
ResolveSpaceport ==
    /\ last.op = "probe"
    /\ \E collision \in {checkSpaceportCollision(last.newPosition)} :
          IF collision.collided
          THEN handleCollision("checkSpaceportCollision", "spaceport", collision)
          ELSE Missed("checkSpaceportCollision")
    /\ UNCHANGED << channel, pendingFrame, relay, loginManager, initialized, celestialObjects, wsManager, localPlayerId, players, playerTrails, keyState,
                    connected, serverPlayers, ticks, events >>

NextResolve == ResolvePlanet \/ ResolveSpaceport

SpecResolve == InitResolve /\ [][NextResolve]_vars

Resolved == last.op \in {"checkPlanetCollision", "checkSpaceportCollision"}

(* C5: the velocity v' a collision leaves has |v'| = 0.5 |v|, and v'.n has
   the sign opposite to that of v.n, for the normal n of a planet, of a
   cylinder and of a box, turned or not *)
C5_ReflectionLaw ==
    (Resolved /\ last.solid # "none") =>
        /\ 4 * LengthSq(localPhysics.velocity) = LengthSq(last.before)
        /\ Sgn(Dot(localPhysics.velocity, last.contact.normal))
              = -Sgn(Dot(last.before, last.contact.normal))

(* a hit of a turned box with a velocity that goes into the face *)
C5_Witness ==
    /\ Resolved /\ last.solid = "spaceport"
    /\ parts[last.contact.part].type = "box" /\ parts[last.contact.part].rotation # 0
    /\ Dot(last.before, last.contact.normal) < 0
    /\ Dot(localPhysics.velocity, last.contact.normal) > 0

(* the distance of p to body k is less than its radius + shipRadius *)
Within(k, p) ==
    LET d == VSub(p, planets[k].position)
        r == planets[k].radius + shipRadius
    IN  /\ Abs(d.x) < r /\ Abs(d.y) < r /\ Abs(d.z) < r
        /\ d.x * d.x + d.y * d.y + d.z * d.z < r * r

(* C6: checkPlanetCollision reports a hit if and only if the tentative
   position is at less than planetRadius + shipRadius from the centre of some
   planet *)
C6_StrictThreshold ==
    last.op = "checkPlanetCollision" =>
        ((last.solid = "planet") <=> \E k \in 1..Len(planets) : Within(k, last.newPosition))

(* a position at 0.05 less than planetRadius + shipRadius from a centre, hit,
   where the position 0.05 further on the same line is not *)
C6_Witness ==
    /\ last.op = "checkPlanetCollision" /\ last.solid = "planet"
    /\ \E k \in 1..Len(planets), u \in Fifths :
          /\ last.newPosition
                = VAdd(planets[k].position, VScale(u, planets[k].radius + shipRadius - 5, 5))
          /\ ~Within(k, VAdd(planets[k].position, VScale(u, planets[k].radius + shipRadius, 5)))

Hit == planets[last.contact.part]

(* C7 as claimed: the contact point of a planet hit, where the ship is put,
   is at exactly bodyRadius + shipRadius from the centre *)
C7_Original ==
    (last.op = "checkPlanetCollision" /\ last.solid = "planet") =>
        /\ local.position = last.contact.position
        /\ DistSq(last.contact.position, Hit.position)
              = (Hit.radius + shipRadius) * (Hit.radius + shipRadius)

(* C7: the contact point of a planet hit, where the ship is put, is at
   exactly bodyRadius from the centre, on the surface of the planet, unless
   the tentative position is the centre, and then it is the centre *)
C7_ContactOnSurface ==
    (last.op = "checkPlanetCollision" /\ last.solid = "planet") =>
        /\ local.position = last.contact.position
        /\ IF last.newPosition = Hit.position
           THEN last.contact.position = Hit.position
           ELSE DistSq(last.contact.position, Hit.position) = Hit.radius * Hit.radius

(* a hit from between the surface and the sphere of the test, off the axes *)
C7_Witness ==
    /\ last.op = "checkPlanetCollision" /\ last.solid = "planet"
    /\ DistSq(last.newPosition, Hit.position) > Hit.radius * Hit.radius
    /\ DistSq(local.position, Hit.position) = Hit.radius * Hit.radius
    /\ last.contact.normal.x # 0 /\ last.contact.normal.y # 0

----------------------------------------------------------------------------
(* The test scenario: one planet of radius 10 centred at (0, 0, -20); the ship
   at the origin, facing it, with velocity (0, 0, -1); forward thrust held in
   every frame, and a frame every 8 ms at least. *)

scenarioPlanets == << Planet(0, 0, -20, 10) >>

(* the time since the previous frame in the scenario: deltaTime 0.5, 1 and 2 *)
ScenarioElapsed == {5, 10, 40}

InitScenario ==
    /\ celestialObjects = scenarioPlanets
    /\ relay = NoRelay
    /\ loginManager = LoggedIn("L")
    /\ initialized = TRUE
    /\ pendingFrame = mainLoop
    /\ wsManager = "websocket.js"
    /\ localPlayerId = "L"
    /\ playerShips = [id \in Ids |-> IF id = "L" THEN Ship(Zero3, Zero3) ELSE NoShip]
    /\ shipPhysics = [id \in Ids |-> IF id = "L" THEN FlightPhysics(Zero3, Vec(0, 0, -Unit))
                                     ELSE NoPhysics]
    /\ players = {"L"}
    /\ playerTrails = [id \in Ids |-> NoTrail]
    /\ keyState = [noKeys EXCEPT !.thrustForward = TRUE]
    /\ crashScreen = "absent"
    /\ connected = TRUE
    /\ channel = WebSocketManager(TRUE)
    /\ serverPlayers = {}
    /\ ticks = 0
    /\ events = 0
    /\ last = NoOp

NextScenario == \E elapsed \in ScenarioElapsed : Tick(elapsed)

(* animate asks the browser for the next frame before it does anything else,
   so a frame is taken as long as frames are left; Tick has a branch for every
   state, which makes this weak fairness of NextScenario *)
Frame == ticks < TickLimit /\ ticks' = ticks + 1

SpecScenario == InitScenario /\ [][NextScenario]_vars /\ WF_ticks(Frame)

PlanetReported == TickRan /\ last.solid = "planet"

(* the nearest point of the axis at which the planet's check reports a hit *)
scenarioFront ==
    scenarioPlanets[1].position.z + scenarioPlanets[1].radius + shipRadius

(* C8: in the scenario some tick reports a planet collision, and the ship
   cannot pass the planet without one: until a collision is reported it stays
   in front of the sphere of the check, and it is never behind the centre *)
C8_ScenarioCollides ==
    /\ <>PlanetReported
    /\ [](crashScreen # "flex" => local.position.z >= scenarioFront)
    /\ [](local.position.z >= scenarioPlanets[1].position.z)

(* the first collision reported in the scenario, the ship put on the planet *)
C8_Witness ==
    /\ celestialObjects = scenarioPlanets
    /\ PlanetReported
    /\ last.contact.position = Vec(0, 0, -10 * Unit)
    /\ local.position = last.contact.position

----------------------------------------------------------------------------
(* Free flight: a tick of the session with no key held and no planet within
   the cutoff of applyGravitationalForces *)

FreeTick == TickRan /\ last.free

(* the component keeps its side of zero *)
SameSide(before, after) ==
    /\ (before >= 0 => after >= 0)
    /\ (before <= 0 => after <= 0)

KeepsSigns(before, after) ==
    /\ SameSide(before.x, after.x)
    /\ SameSide(before.y, after.y)
    /\ SameSide(before.z, after.z)

Decays == LengthSq(localPhysics.velocity) <= LengthSq(last.before)

(* C9 as stated: a free tick does not raise the speed and changes the sign of
   no component of the velocity *)
C9_Original == FreeTick => Decays /\ KeepsSigns(last.before, localPhysics.velocity)

(* C9: a free tick does not raise the speed, and it changes the sign of no
   component of the velocity unless it reports a collision with a planet or
   with a part of the spaceport, whose response reflects the velocity *)
C9_DecayUnlessHit ==
    FreeTick =>
        /\ Decays
        /\ last.solid = "none" => KeepsSigns(last.before, localPhysics.velocity)

(* a free tick, without a collision, of a moving ship: drag has slowed it *)
C9_Witness ==
    /\ FreeTick /\ last.solid = "none"
    /\ last.before # Zero3
    /\ LengthSq(localPhysics.velocity) < LengthSq(last.before)
    /\ localPhysics.velocity # Zero3

----------------------------------------------------------------------------
(* The updatePosition messages *)

(* C10: every updatePosition message sent, by a tick, by resetPlayerPosition
   or by restartGame, parses to { type: "updatePosition", position: {x, y, z},
   rotation: {x, y, z}, trailActive: a boolean } with the numbers of the
   ship's position and rotation, and the relay keeps that position and that
   rotation *)
C10_WireShape ==
    last.sent =>
        \E data \in {JsonParse(last.message)} :
            /\ Get(data, "type") = String("updatePosition")
            /\ Get(data, "position") = Literal(local.position)
            /\ Get(data, "rotation") = Literal(local.rotation)
            /\ Get(data, "trailActive").t = "boolean"
            /\ updatePosition(data) = [position |-> Literal(local.position),
                                       rotation |-> Literal(local.rotation)]

----------------------------------------------------------------------------
(* updateTrail on its own: the trail of a player is handed one point after
   another, each at a drawn distance along x from the last point kept. *)

(* the distances drawn: below, at and above the 1.0 a new point needs *)
TrailGaps == {50, 100, 200}

InitTrail ==
    /\ celestialObjects = planets
    /\ relay = NoRelay
    /\ loginManager = LoggedIn("L")
    /\ initialized = TRUE
    /\ pendingFrame = mainLoop
    /\ wsManager = "websocket.js"
    /\ localPlayerId = "L"
    /\ playerShips = [id \in Ids |-> IF id = "L" THEN Ship(spawnPosition, Zero3) ELSE NoShip]
    /\ shipPhysics = [id \in Ids |-> IF id = "L" THEN TickPhysics(spawnPosition) ELSE NoPhysics]
    /\ players = {"L"}
    /\ playerTrails = [id \in Ids |-> NoTrail]
    /\ keyState = [noKeys EXCEPT !.trailActive = TRUE]
    /\ crashScreen = "absent"
    /\ connected = TRUE
    /\ channel = WebSocketManager(TRUE)
    /\ serverPlayers = {}
    /\ ticks = 0
    /\ events = 0
    /\ last = NoOp

(* this.updateTrail(id, position) *)
CallUpdateTrail(id, gap) ==
    /\ events < MaxTrailCalls
    /\ events' = events + 1
    /\ \E position \in
            { IF playerTrails[id].segments = << >> THEN spawnPosition
              ELSE VAdd(playerTrails[id].segments[Len(playerTrails[id].segments)],
                        Vec(gap, 0, 0)) } :
          /\ playerTrails' = [playerTrails EXCEPT ![id] = updateTrail(@, position)]
          /\ last' = [op |-> "updateTrail", id |-> id, newPosition |-> position,
                      trail |-> playerTrails[id].segments]
    /\ UNCHANGED << channel, pendingFrame, relay, loginManager, initialized, celestialObjects, wsManager, localPlayerId, playerShips, shipPhysics, players,
                    keyState, crashScreen, connected, serverPlayers, ticks >>

NextTrail == \E gap \in TrailGaps : CallUpdateTrail("L", gap)

SpecTrail == InitTrail /\ [][NextTrail]_vars

TrailCalled == last.op = "updateTrail"

(* the point handed to updateTrail was added at the end *)
TrailGrew ==
    /\ TrailCalled
    /\ playerTrails[last.id].segments # last.trail

(* C11: a trail has at most 100 points; a call of updateTrail leaves the trail
   as it was or adds the point at its end, and when that makes 101 points the
   first, oldest one is removed and the others keep their order *)
C11_TrailCapFifo ==
    /\ \A id \in Ids : Len(playerTrails[id].segments) <= maxTrailSegments
    /\ TrailCalled =>
          \/ playerTrails[last.id].segments = last.trail
          \/ /\ Len(last.trail) < maxTrailSegments
             /\ playerTrails[last.id].segments = Append(last.trail, last.newPosition)
          \/ /\ Len(last.trail) = maxTrailSegments
             /\ playerTrails[last.id].segments = Append(Tail(last.trail), last.newPosition)

(* a point added to a trail of 100 points: the oldest has gone *)
C11_Witness ==
    /\ TrailGrew
    /\ Len(last.trail) = maxTrailSegments
    /\ Len(playerTrails[last.id].segments) = maxTrailSegments
    /\ playerTrails[last.id].segments[1] = last.trail[2]
    /\ playerTrails[last.id].segments[maxTrailSegments] = last.newPosition

----------------------------------------------------------------------------
(* The life of a trail in the session *)

TrailPoints(id) == playerTrails[id].segments

(* the trail input of the local player is off and its trail is empty *)
EmptyWhenOff == ~keyState.trailActive => TrailPoints(localPlayerId) = << >>

(* a crashed local player has no trail points *)
EmptyWhenCrashed == Crashed => TrailPoints(localPlayerId) = << >>

(* a player that has left has no trail points *)
EmptyWhenGone ==
    \A id \in Ids \ {localPlayerId} : id \notin players => TrailPoints(id) = << >>

(* C12: a trail is empty at the start and whenever its player's trail input
   is off, and no points of it remain once its player has crashed or has left,
   by a playerLeft message or by being absent from a positions message *)
C12_TrailLifecycle == EmptyWhenOff /\ EmptyWhenCrashed /\ EmptyWhenGone

----------------------------------------------------------------------------
(* A second login in the session.  sendLoginRequest falls back to a test id
   when the relay has not answered within 3 s, and its loginResponse callback
   stays registered: an answer that comes later goes through loginSuccess and
   initializeGame to setLocalPlayerId, in a session that has been played
   under the test id. *)

(* how far along x the trail drawn under the test id passes from the origin,
   where the relay puts a player that logs in *)
ReloginOffsets == {0, 300, 800}

(* the session under the test id "L": the ship has dived along y with the
   trail input held and has drawn a trail of three points; it flies on, or it
   has crashed and the crash screen is shown *)
InitRelogin ==
    /\ celestialObjects = planets
    /\ relay = NoRelay
    /\ loginManager = [LoggedIn("L") EXCEPT !.requests = << LoggedIn("L").username >>]
    /\ initialized = TRUE
    /\ pendingFrame \in Loops
    /\ wsManager = "websocket.js"
    /\ localPlayerId = "L"
    /\ \E x \in ReloginOffsets, crashed \in BOOLEAN :
          /\ playerShips = [id \in Ids |->
                IF id = "L"
                THEN [Ship(Vec(x, -4 * Unit, 0), spawnRotation) EXCEPT !.visible = ~crashed]
                ELSE NoShip]
          /\ shipPhysics = [id \in Ids |->
                IF id = "L" THEN FlightPhysics(Vec(x, -4 * Unit, 0), Vec(0, -maxSpeed, 0))
                ELSE NoPhysics]
          /\ playerTrails = [id \in Ids |->
                IF id = "L"
                THEN [exists |-> TRUE, drawnBy |-> "local",
                      segments |-> << Vec(x, 4 * Unit, 0), Vec(x, 0, 0), Vec(x, -4 * Unit, 0) >>]
                ELSE NoTrail]
          /\ crashScreen = IF crashed THEN "flex" ELSE "absent"
    /\ players = {"L"}
    /\ keyState = [noKeys EXCEPT !.trailActive = TRUE]
    /\ connected = TRUE
    /\ channel = WebSocketManager(TRUE)
    /\ serverPlayers = {}
    /\ ticks = 0
    /\ events = 0
    /\ last = NoOp

(* setLocalPlayerId *)
setLocalPlayerId(playerId) == localPlayerId' = playerId

(* init(localPlayerId): the local player is added at the spawn point and the
   game is marked initialized *)
init(playerId) ==
    /\ setLocalPlayerId(playerId)
    /\ players' = players \cup {playerId}
    /\ playerShips' = IF playerShips[playerId].exists THEN playerShips
                      ELSE [playerShips EXCEPT ![playerId] = Ship(spawnPosition, spawnRotation)]
    /\ pendingFrame' = mainLoop
    /\ initialized' = TRUE

(* loginSuccess(playerId, username), and the initializeGame it ends with;
   answered counts the loginResponse messages received so far *)
loginSuccess(playerId, username, answered) ==
    /\ loginManager' = [loginManager EXCEPT !.playerId = playerId, !.username = username,
                                            !.answered = answered]
    /\ IF initialized
       THEN setLocalPlayerId(playerId)
            /\ UNCHANGED << players, playerShips, initialized, pendingFrame >>
       ELSE init(playerId)

(* the loginResponse callback that sendLoginRequest registered:
   loginSuccess(data.playerId, username) *)
loginResponse(playerId) ==
    /\ connected
    /\ events < MaxEvents
    /\ events' = events + 1
    /\ loginManager.requests # << >>
    \* the server answers every login request once
    /\ loginManager.answered < Len(loginManager.requests)
    /\ playerId # localPlayerId
    /\ loginSuccess(playerId, loginManager.requests[Len(loginManager.requests)],
                    loginManager.answered + 1)
    /\ last' = [NoOp EXCEPT !.op = "loginResponse"]
    /\ UNCHANGED << channel, relay, celestialObjects, wsManager, shipPhysics, playerTrails,
                    keyState, crashScreen, connected, serverPlayers, ticks >>

(* the newPlayer message the relay broadcasts on a login, received by the
   client that logged in: addPlayer of a player at the origin *)
RecvOwnNewPlayer ==
    /\ connected
    /\ events < MaxEvents
    /\ events' = events + 1
    /\ localPlayerId # "L"
    /\ localPlayerId \notin players
    /\ players' = players \cup {localPlayerId}
    /\ playerShips' = IF playerShips[localPlayerId].exists THEN playerShips
                      ELSE [playerShips EXCEPT ![localPlayerId] = Ship(Zero3, Zero3)]
    /\ last' = [NoOp EXCEPT !.op = "newPlayer"]
    /\ UNCHANGED << channel, pendingFrame, relay, loginManager, initialized, celestialObjects, wsManager, localPlayerId, shipPhysics, playerTrails, keyState,
                    crashScreen, connected, serverPlayers, ticks >>

(* animate of the other loops: the frame is requested, then the tick runs,
   and raises or not *)
AnimateOther(threw) ==
    /\ ticks < TickLimit
    /\ pendingFrame \in Loops \ {mainLoop}
    /\ ticks' = ticks + 1
    /\ pendingFrame' = animateRequests(pendingFrame, threw)
    /\ last' = [NoOp EXCEPT !.op = "tick", !.threw = threw]
    /\ UNCHANGED << channel, relay, loginManager, initialized, celestialObjects, wsManager, localPlayerId,
                    playerShips, shipPhysics, players, playerTrails, keyState, crashScreen,
                    connected, serverPlayers, events >>

NextRelogin ==
    \/ \E elapsed \in Elapsed : Tick(elapsed)
    \/ \E threw \in BOOLEAN : AnimateOther(threw)
    \/ restartGame
    \/ \E draw \in Draws : KeyDown("KeyR", draw.launchIndex, draw.kick)
    \/ \E id \in Ids : loginResponse(id)
    \/ RecvOwnNewPlayer
    \/ KeyDown("Space", 1, Zero3)
    \/ KeyUp("Space")
    \/ \E data \in RemoteData : RecvPositions(data)

SpecRelogin == InitRelogin /\ [][NextRelogin]_vars

(* C13: the trail a tick reports a crash on was drawn by another player,
   never by the local player, whatever id the local player had when it drew
   it *)
C13_NoOwnTrailCrash == (TickRan /\ last.trailHit) => last.trailDrawnBy # "local"

----------------------------------------------------------------------------
(* The relay: server/server.js, which takes messages from WebSockets and from
   POST /ws-proxy/send, and api/ws-proxy.js, which takes them from POST
   requests only.  Both keep a Map clients and an object players. *)

Servers == {"server.js", "ws-proxy.js", "backup/login.js"}

(* the browsers that talk to the relay *)
Clients == {"a", "b"}

MaxRequests == 4

(* the transports a server offers *)
Transports(server) ==
    CASE server = "server.js" -> {"ws", "http"}
      [] server = "ws-proxy.js" -> {"http"}
      [] OTHER -> {"ws"}

(* the key processMessage uses in the Map clients for request number n of
   client c: server.js is handed the socket ws of a WebSocket connection, and
   for a POST an object { type: 'http', clientId, send } made for that
   request; ws-proxy.js is handed the string clientId *)
ClientKey(server, transport, c, n) ==
    IF server = "ws-proxy.js" THEN [type |-> "string", clientId |-> c, request |-> 0]
    ELSE IF transport = "ws" THEN [type |-> "ws", clientId |-> c, request |-> 0]
    ELSE [type |-> "http", clientId |-> c, request |-> n]

(* clients.get(key): the id kept for the key, "" without an entry *)
ClientId(clients, key) ==
    IF \E e \in clients : e.key = key THEN (CHOOSE e \in clients : e.key = key).id ELSE ""

(* clients.set(key, { id }) *)
SetClient(clients, key, id) == {e \in clients : e.key # key} \cup {[key |-> key, id |-> id]}

(* the updatePosition messages of the clients, parsed: from the later
   WebSocketManager with a position and a rotation, and from js/websocket.js
   with six components *)
RelayMessages ==
    { JsonParse(sendPositionUpdate("part_001", << Literal(p), Literal(Zero3), Boolean(TRUE) >>)) :
        p \in {spawnPosition, restartPosition} }
    \cup
    { JsonParse(sendPositionUpdate("websocket.js", Components(Ship(spawnPosition, spawnRotation)))) }

(* a relay that has just started, and a page on which nobody has logged in *)
InitRelay ==
    /\ \E server \in Servers : relay = [NoRelay EXCEPT !.server = server]
    /\ loginManager = [playerId |-> "", username |-> << >>, requests |-> << >>,
                       answered |-> 0]
    /\ initialized = FALSE
    /\ pendingFrame = ""
    /\ celestialObjects = planets
    /\ wsManager = "websocket.js"
    /\ localPlayerId = ""
    /\ playerShips = [id \in Ids |-> NoShip]
    /\ shipPhysics = [id \in Ids |-> NoPhysics]
    /\ players = {}
    /\ playerTrails = [id \in Ids |-> NoTrail]
    /\ keyState = noKeys
    /\ crashScreen = "absent"
    /\ connected = FALSE
    /\ channel = WebSocketManager(FALSE)
    /\ serverPlayers = {}
    /\ ticks = 0
    /\ events = 0
    /\ last = NoOp

(* processMessage, case 'login': generateId, clients.set, the players entry *)
RelayLogin(c, transport, playerId) ==
    /\ events < MaxRequests
    /\ events' = events + 1
    /\ transport \in Transports(relay.server)
    /\ ~relay.players[playerId].exists
    /\ relay' = [relay EXCEPT
          !.clients = SetClient(@, ClientKey(relay.server, transport, c, events + 1), playerId),
          !.players[playerId] =
              [exists |-> TRUE,
               position |-> Literal(IF relay.server = "backup/login.js" THEN restartPosition
                                    ELSE Zero3),
               rotation |-> Literal(Zero3)],
          !.reported[playerId] = NoEntry]
    /\ last' = [op |-> "login", client |-> c, transport |-> transport, player |-> playerId]
    /\ UNCHANGED << channel, pendingFrame, loginManager, initialized, celestialObjects, wsManager, localPlayerId,
                    playerShips, shipPhysics, players, playerTrails, keyState, crashScreen,
                    connected, serverPlayers, ticks >>

(* processMessage, case 'updatePosition', for a message of the client that
   logged in as playerId *)
RelayUpdatePosition(c, transport, playerId, data) ==
    /\ events < MaxRequests
    /\ events' = events + 1
    /\ transport \in Transports(relay.server)
    /\ \E e \in relay.clients :
          e.id = playerId /\ e.key.clientId = c /\ e.key.type = ClientKey(relay.server, transport, c, 0).type
    /\ \E id \in {ClientId(relay.clients, ClientKey(relay.server, transport, c, events + 1))} :
          relay' = [relay EXCEPT
             !.players = IF id # "" /\ @[id].exists
                         THEN [@ EXCEPT ![id] = [exists |-> TRUE] @@ updatePosition(data)]
                         ELSE @,
             !.reported[playerId] = [exists |-> TRUE] @@ updatePosition(data)]
    /\ last' = [op |-> "updatePosition", client |-> c, transport |-> transport,
                player |-> playerId]
    /\ UNCHANGED << channel, pendingFrame, loginManager, initialized, celestialObjects, wsManager, localPlayerId,
                    playerShips, shipPhysics, players, playerTrails, keyState, crashScreen,
                    connected, serverPlayers, ticks >>

(* processMessage on a playerCrashed message of the client that logged in as
   playerId: server.js and ws-proxy.js have no case for it; the standalone
   server of backup/ deletes the player's entry; relay.crashed keeps the ids
   whose clients have reported a crash, relay.reported what they sent since *)
RelayPlayerCrashed(c, transport, playerId) ==
    /\ events < MaxRequests
    /\ events' = events + 1
    /\ transport \in Transports(relay.server)
    /\ \E e \in relay.clients :
          e.id = playerId /\ e.key.clientId = c /\ e.key.type = ClientKey(relay.server, transport, c, 0).type
    /\ relay' = [relay EXCEPT
          !.players[playerId] = IF relay.server = "backup/login.js" THEN NoEntry ELSE @,
          !.reported[playerId] = NoEntry,
          !.crashed = @ \cup {playerId}]
    /\ last' = [op |-> "playerCrashed", client |-> c, transport |-> transport,
                player |-> playerId]
    /\ UNCHANGED << channel, pendingFrame, loginManager, initialized, celestialObjects, wsManager, localPlayerId,
                    playerShips, shipPhysics, players, playerTrails, keyState, crashScreen,
                    connected, serverPlayers, ticks >>

(* broadcastPlayerPositions: { type: 'positions', players: players } *)
broadcastPlayerPositions ==
    /\ events < MaxRequests
    /\ events' = events + 1
    /\ last' = [op |-> "positions", carried |-> relay.players]
    /\ UNCHANGED << channel, pendingFrame, relay, loginManager, initialized, celestialObjects, wsManager, localPlayerId,
                    playerShips, shipPhysics, players, playerTrails, keyState, crashScreen,
                    connected, serverPlayers, ticks >>

NextRelay ==
    \/ \E c \in Clients, transport \in {"ws", "http"}, playerId \in Ids :
          RelayLogin(c, transport, playerId)
    \/ \E c \in Clients, transport \in {"ws", "http"}, playerId \in Ids, data \in RelayMessages :
          RelayUpdatePosition(c, transport, playerId, data)
    \/ \E c \in Clients, transport \in {"ws", "http"}, playerId \in Ids :
          RelayPlayerCrashed(c, transport, playerId)
    \/ broadcastPlayerPositions

SpecRelay == InitRelay /\ [][NextRelay]_vars

(* what the player's client has reported is what the relay holds *)
Stored(id) ==
    relay.reported[id].exists =>
        /\ relay.players[id].position = relay.reported[id].position
        /\ relay.players[id].rotation = relay.reported[id].rotation

(* C14: once a logged-in client has sent updatePosition, over a WebSocket or
   by POST, the relay holds the position and the rotation of its latest
   message for its player, and a positions broadcast carries them *)
C14_RelayStoresReport ==
    /\ \A id \in Ids : Stored(id)
    /\ last.op = "positions" =>
          \A id \in Ids : relay.reported[id].exists =>
              /\ last.carried[id].position = relay.reported[id].position
              /\ last.carried[id].rotation = relay.reported[id].rotation

----------------------------------------------------------------------------
(* The login form *)

Whitespace == {" "}

(* String.prototype.trim, on a text given as the sequence of its characters *)
RECURSIVE Trim(_)
Trim(text) ==
    IF text = << >> THEN text
    ELSE IF Head(text) \in Whitespace THEN Trim(Tail(text))
    ELSE IF text[Len(text)] \in Whitespace THEN Trim(SubSeq(text, 1, Len(text) - 1))
    ELSE text

(* what the user has typed in the username input *)
UsernameInputs ==
    { << >>, << " " >>, << "a" >>, << " ", "a", "b", " " >>, << "a", "b", "c" >>,
      << "a", " ", "b", "c" >> }

(* handleLoginClick, with attemptLogin: an empty name is refused; otherwise a
   login request is sent on a connected socket, after connecting when needed,
   and without a connection useTestPlayerId logs the user in under a test id *)
handleLoginClick(value, up) ==
    /\ events < MaxEvents
    /\ events' = events + 1
    /\ loginManager.playerId = ""
    /\ \E username \in {Trim(value)} :
          IF username = << >>
          THEN /\ last' = [NoOp EXCEPT !.op = "showLoginError"]
               /\ UNCHANGED << loginManager, initialized, pendingFrame, localPlayerId, players,
                               playerShips, connected >>
          ELSE IF connected \/ up
          THEN /\ connected' = TRUE
               /\ loginManager' = [loginManager EXCEPT !.requests = Append(@, username)]
               /\ last' = [NoOp EXCEPT !.op = "sendLoginRequest"]
               /\ UNCHANGED << initialized, pendingFrame, localPlayerId, players, playerShips >>
          ELSE /\ loginSuccess("L", username, loginManager.answered)
               /\ last' = [NoOp EXCEPT !.op = "useTestPlayerId"]
               /\ UNCHANGED connected
    \* the socket that has come up, with its heartbeat
    /\ channel' = WebSocketManager(connected')
    /\ UNCHANGED << relay, celestialObjects, wsManager, shipPhysics, playerTrails, keyState,
                    crashScreen, serverPlayers, ticks >>

(* the timeout of sendLoginRequest: no player id after 3 s, useTestPlayerId *)
loginTimeout ==
    /\ events < MaxEvents
    /\ events' = events + 1
    /\ loginManager.requests # << >>
    /\ loginManager.playerId = ""
    /\ loginSuccess("L", loginManager.requests[Len(loginManager.requests)],
                    loginManager.answered)
    /\ last' = [NoOp EXCEPT !.op = "useTestPlayerId"]
    /\ UNCHANGED << channel, relay, celestialObjects, wsManager, shipPhysics, playerTrails, keyState,
                    crashScreen, connected, serverPlayers, ticks >>

NextLogin ==
    \/ \E value \in UsernameInputs, up \in BOOLEAN : handleLoginClick(value, up)
    \/ \E id \in Ids : loginResponse(id)
    \/ loginTimeout
    \/ \E elapsed \in Elapsed : Tick(elapsed)
    \* cleanupInactivePlayers: the server drops a player that has sent no
    \* position for 60 s and tells every open connection, the player's included
    \/ initialized /\ RecvPlayerLeft(localPlayerId)

SpecLogin == InitRelay /\ [][NextLogin]_vars

MinUsername == 3

(* C15: a login request is sent, a player id is assigned and the game is
   initialized only for a username of at least 3 characters *)
C15_ShortNameRejected ==
    /\ \A k \in 1..Len(loginManager.requests) : Len(loginManager.requests[k]) >= MinUsername
    /\ loginManager.playerId # "" => Len(loginManager.username) >= MinUsername
    /\ initialized => Len(loginManager.username) >= MinUsername

----------------------------------------------------------------------------
(* applyGravitationalForces on its own: a ship position is drawn near a
   planet and the force of that planet is computed. *)

(* the floor Math.max(distanceSq, 100) of applyGravityFromBody *)
minDistanceSquaredFloor == 100 * Unit * Unit

(* distances from the centre of a planet, in fifths of a world unit: the
   centre, 0.2, 1, 5, 10, 50 and the cutoff 100 *)
GravityDistances == {0, Unit \div 5, Unit, 5 * Unit, 10 * Unit, 50 * Unit, 100 * Unit}

InitGravity ==
    /\ relay = NoRelay
    /\ loginManager = LoggedIn("L")
    /\ initialized = TRUE
    /\ pendingFrame = mainLoop
    /\ celestialObjects = planets
    /\ wsManager = "websocket.js"
    /\ localPlayerId = "L"
    /\ playerShips = [id \in Ids |-> IF id = "L" THEN Ship(spawnPosition, Zero3) ELSE NoShip]
    /\ shipPhysics = [id \in Ids |-> IF id = "L" THEN TickPhysics(spawnPosition) ELSE NoPhysics]
    /\ players = {"L"}
    /\ playerTrails = [id \in Ids |-> NoTrail]
    /\ keyState = noKeys
    /\ crashScreen = "absent"
    /\ connected = TRUE
    /\ channel = WebSocketManager(TRUE)
    /\ serverPlayers = {}
    /\ ticks = 0
    /\ events = 0
    /\ \E k \in 1..Len(planets), u \in Fifths, d \in GravityDistances :
          last = [op |-> "probe", body |-> k,
                  position |-> VAdd(planets[k].position, VScale(u, d, 5))]

(* the forEach body of applyGravitationalForces for the planet probed *)
ApplyGravity ==
    /\ last.op = "probe"
    /\ last' = [op |-> "applyGravitationalForces", body |-> last.body,
                position |-> last.position,
                force |-> GravityFrom(celestialObjects[last.body], last.position)]
    /\ UNCHANGED << channel, pendingFrame, relay, loginManager, initialized, celestialObjects, wsManager, localPlayerId,
                    playerShips, shipPhysics, players, playerTrails, keyState, crashScreen,
                    connected, serverPlayers, ticks, events >>

SpecGravity == InitGravity /\ [][ApplyGravity]_vars

(* G * mass / distanceSquared as a length in Unit *)
GravityAt(distanceSquared) == QuoT(NormUnit * gravityNumerator, distanceSquared)

(* C16: the force a planet within the cutoff adds is a vector of numbers of
   length G * mass / max(distanceSquared, minDistanceSquaredFloor), within
   the rounding, and so at most G * mass / minDistanceSquaredFloor *)
C16_GravityFloor ==
    (/\ last.op = "applyGravitationalForces"
     /\ DistSq(planets[last.body].position, last.position) <= gravityCutoffSq) =>
        LET distanceSquared == DistSq(planets[last.body].position, last.position)
            floored == IF distanceSquared > minDistanceSquaredFloor THEN distanceSquared
                       ELSE minDistanceSquaredFloor
        IN  /\ last.force # NaN3
            /\ Abs(SqrtFloor(LengthSq(last.force)) - GravityAt(floored)) <= 2
            /\ LengthSq(last.force)
                  <= (GravityAt(minDistanceSquaredFloor) + 2) * (GravityAt(minDistanceSquaredFloor) + 2)

----------------------------------------------------------------------------
(* The frame-time multiplier, the physics record and the frame loop *)

(* a tick that got as far as its deltaTime *)
TickTimed == last.op = "tick" /\ (last.ran \/ last.threw) /\ pendingFrame = mainLoop

(* C17: the deltaTime of a tick is a number, at most 2.0, also in the first
   tick on a physics record that restartGame created *)
C17_DeltaTimeDefined ==
    TickTimed => last.defined /\ last.deltaTime >= 0 /\ last.deltaTime <= maxDeltaTime

(* a tick of updateLocalPlayer for a ship that has no physics record *)
TickWithoutRecord ==
    /\ last'.op = "tick" /\ ticks' = ticks + 1
    /\ localPlayerId # "" /\ local.exists /\ ~localPhysics.exists

(* the tick before created the record *)
RecordCreated ==
    /\ last.op = "tick" /\ ~last.ran /\ ~last.threw
    /\ local.exists /\ localPhysics.exists

(* C18: a tick for a local ship without a physics record raises nothing,
   leaves the ships as they are and sends nothing, and creates a record of
   velocity zero on which the next tick runs its physics *)
C18_TickCreatesRecord ==
    [][/\ TickWithoutRecord =>
             /\ ~last'.threw /\ ~last'.sent /\ ~last'.ran
             /\ playerShips' = playerShips
             /\ shipPhysics'[localPlayerId].exists
             /\ shipPhysics'[localPlayerId].velocity = Zero3
             /\ shipPhysics'[localPlayerId].tickFields
       /\ (RecordCreated /\ last'.op = "tick" /\ ticks' = ticks + 1) => last'.ran]_vars

(* the record a first tick created for the ship at the spawn point, and the
   second tick run on it *)
C18_Witness ==
    /\ TickRan /\ ticks = 2
    /\ localPhysics.tickFields /\ ~localPhysics.angularVelocity
    /\ DistSq(local.position, spawnPosition) <= Unit * Unit
    /\ events = 0

(* C19: resetPlayerPosition on a record that updateLocalPlayer created raises
   nothing: the ship is on a launch position, the angular velocity is zero and
   a connected client has sent the position *)
C19_ResetCompletes ==
    (last.op = "resetPlayerPosition" /\ last.ran /\ localPhysics.tickFields) =>
        /\ ~last.threw
        /\ localPhysics.angularVelocity
        /\ \E k \in 1..Len(launchPositions) : local.position = launchPositions[k].position
        /\ connected => last.sent

(* C20: when a tick has raised, the loop still holds its request for the next
   frame, in every animate; a started loop never loses it *)
C20_LoopSurvives ==
    /\ (last.op = "tick" /\ last.threw) => pendingFrame \in Loops
    /\ initialized => pendingFrame \in Loops

(* a tick that raised, at physics.acceleration.set, with the next frame held *)
C20_Witness ==
    /\ last.op = "tick" /\ last.threw /\ ~last.defined
    /\ pendingFrame = mainLoop
    /\ ticks < TickLimit

----------------------------------------------------------------------------
(* The response to a hit of a box part, on the probes around the ramps. *)

(* C21: after the response to a hit of a box part, turned or not, the ship is
   outside the box of the test, at shipRadius beyond the face that was nearest
   to the tentative position *)
C21_BoxPushedOut ==
    (last.op = "checkSpaceportCollision" /\ last.solid = "spaceport"
        /\ parts[last.contact.part].type = "box") =>
        LET bounds == partBounds[last.contact.part]
            p == last.newPosition
            beyond == << Vec(bounds.min.x - shipRadius, p.y, p.z),
                         Vec(bounds.max.x + shipRadius, p.y, p.z),
                         Vec(p.x, bounds.min.y - shipRadius, p.z),
                         Vec(p.x, bounds.max.y + shipRadius, p.z),
                         Vec(p.x, p.y, bounds.min.z - shipRadius),
                         Vec(p.x, p.y, bounds.max.z + shipRadius) >>
            distances == << Abs(p.x - bounds.min.x), Abs(p.x - bounds.max.x),
                            Abs(p.y - bounds.min.y), Abs(p.y - bounds.max.y),
                            Abs(p.z - bounds.min.z), Abs(p.z - bounds.max.z) >>
        IN  /\ ~BoxHit(bounds, local.position)
            /\ \E i \in 1..6 :
                  /\ \A j \in 1..6 : distances[i] <= distances[j]
                  /\ local.position = beyond[i]

----------------------------------------------------------------------------
(* Ticks whose tentative position is inside several solids: the ship comes
   down on the landing pad, where the base and the inner pad overlap, and on
   a ramp, where the base of the ramp, a barrier and the lights overlap; in
   the world of the test scenario the planet at (0, 0, -20) reaches into the
   pad as well. *)

OverlapStarts ==
    { Vec(-100, 30, -1400), Vec(0, 300, -450), Vec(8200, 350, 1800), Vec(8900, 250, 0) }

InitOverlap ==
    /\ celestialObjects \in {planets, scenarioPlanets}
    /\ relay = NoRelay
    /\ loginManager = LoggedIn("L")
    /\ initialized = TRUE
    /\ pendingFrame = mainLoop
    /\ wsManager = "websocket.js"
    /\ localPlayerId = "L"
    /\ \E p \in OverlapStarts, v \in ProbeVelocities :
          /\ playerShips = [id \in Ids |-> IF id = "L" THEN Ship(p, Zero3) ELSE NoShip]
          /\ shipPhysics = [id \in Ids |-> IF id = "L" THEN FlightPhysics(p, v) ELSE NoPhysics]
    /\ players = {"L"}
    /\ playerTrails = [id \in Ids |-> NoTrail]
    /\ keyState = noKeys
    /\ crashScreen = "absent"
    /\ connected = TRUE
    /\ channel = WebSocketManager(TRUE)
    /\ serverPlayers = {}
    /\ ticks = 0
    /\ events = 0
    /\ last = NoOp

(* the frames of the descent, at the frame times of the scenario *)
NextOverlap == ticks < MaxTicks /\ \E elapsed \in ScenarioElapsed : Tick(elapsed)

SpecOverlap == InitOverlap /\ [][NextOverlap]_vars

(* the parts and the planets that hold the tentative position of the tick *)
PartsAround == {k \in 1..Len(parts) : PartHit(parts[k], partBounds[k], last.newPosition)}

PlanetsAround ==
    {k \in 1..Len(celestialObjects) : PlanetHit(celestialObjects[k], last.newPosition)}

(* C22: a tick applies one collision response: that of the first part of the
   spaceport, in the order of the list, that holds the tentative position, and
   that of the first planet that does only if no part of the spaceport does *)
C22_FirstSolidDecides ==
    TickRan =>
        /\ PartsAround # {} =>
              /\ last.solid = "spaceport"
              /\ last.contact.part \in PartsAround
              /\ \A k \in PartsAround : last.contact.part <= k
        /\ (PartsAround = {} /\ PlanetsAround # {}) =>
              /\ last.solid = "planet"
              /\ last.contact.part \in PlanetsAround
              /\ \A k \in PlanetsAround : last.contact.part <= k
        /\ (PartsAround = {} /\ PlanetsAround = {}) => last.solid = "none"
        /\ last.solid # "none" =>
              /\ local.position = last.contact.position
              /\ localPhysics.velocity = Reflect(last.clamped, last.contact.normal)

(* a tentative position inside the base, the inner pad and the planet of the
   scenario at once, answered by the base *)
C22_Witness ==
    /\ TickRan /\ last.solid = "spaceport"
    /\ Cardinality(PartsAround) >= 2 /\ PlanetsAround # {}
    /\ last.contact.part = 1
    /\ local.position = CylinderContact(parts[1], last.newPosition, 1).position

----------------------------------------------------------------------------
(* The frames that follow a collision. *)

(* C23: a tick that runs while the ship is Crashed finds no collision and
   emits no crash effects: the effects of a crash are emitted once, until the
   player has restarted *)
C23_CrashOnce ==
    [][(Crashed /\ last'.op = "tick" /\ ticks' = ticks + 1)
          => (last'.solid = "none" /\ ~last'.trailHit)]_vars

----------------------------------------------------------------------------
(* The messages of the server and the local player. *)

(* C24: a message of the server (playerLeft, newPlayer, positions) leaves the
   local player its entry in players, its ship and its physics record *)
C24_ServerKeepsLocal ==
    [][(last'.op \in {"playerLeft", "newPlayer", "positions"} /\ events' = events + 1)
          => /\ localPlayerId' = localPlayerId
             /\ localPlayerId \in players => localPlayerId \in players'
             /\ local.exists => local'.exists
             /\ localPhysics.exists => localPhysics'.exists]_vars

----------------------------------------------------------------------------
(* The local player id of an initialized game. *)

(* C25: once the game is initialized its local player id does not change and
   loginSuccess does not run again: a loginResponse that arrives after the
   fallback assigned a test id replaces nothing *)
C25_IdAssignedOnce ==
    [][initialized =>
          /\ localPlayerId' = localPlayerId
          /\ loginManager'.playerId = loginManager.playerId
          /\ ~(events' = events + 1 /\ last'.op \in {"loginResponse", "useTestPlayerId"})]_vars

----------------------------------------------------------------------------
(* The entries of the relay and the clients that own them. *)

(* C26: every entry of the relay's players belongs to exactly one registered
   client, the one whose recorded id is the id of the entry *)
C26_EntriesOwned ==
    \A id \in Ids :
        relay.players[id].exists => Cardinality({e \in relay.clients : e.id = id}) = 1

----------------------------------------------------------------------------
(* The serverless relay api/ws-proxy.js and a client that stops polling.
   Clients "a" and "b" have logged in as "L" and "R" and have fetched their
   queues; some of them go on polling and sending, the others have left.
   relay.pending counts the messages queued for a client, up to MaxPending. *)

MaxPending == 3

InitProxy ==
    /\ loginManager = [playerId |-> "", username |-> << >>, requests |-> << >>,
                       answered |-> 0]
    /\ initialized = FALSE
    /\ pendingFrame = ""
    /\ celestialObjects = planets
    /\ wsManager = "websocket.js"
    /\ localPlayerId = ""
    /\ playerShips = [id \in Ids |-> NoShip]
    /\ shipPhysics = [id \in Ids |-> NoPhysics]
    /\ players = {}
    /\ playerTrails = [id \in Ids |-> NoTrail]
    /\ keyState = noKeys
    /\ crashScreen = "absent"
    /\ connected = FALSE
    /\ channel = WebSocketManager(FALSE)
    /\ serverPlayers = {}
    /\ ticks = 0
    /\ events = 0
    /\ last = NoOp
    /\ \E polling \in SUBSET Clients \ {{}} :
          relay = [server |-> "ws-proxy.js",
                   clients |-> {[key |-> ClientKey("ws-proxy.js", "http", "a", 0), id |-> "L"],
                                [key |-> ClientKey("ws-proxy.js", "http", "b", 0), id |-> "R"]},
                   players |-> [id \in Ids |-> [exists |-> TRUE, position |-> Literal(Zero3),
                                                rotation |-> Literal(Zero3)]],
                   reported |-> [id \in Ids |-> NoEntry], crashed |-> {},
                   pending |-> [c \in Clients |-> 0],
                   polling |-> polling]

(* the handler on a GET of client c: clientLastSeen is set, the pending
   messages are returned and the queue is emptied *)
ProxyPoll(c) ==
    /\ c \in relay.polling
    /\ relay' = [relay EXCEPT !.pending[c] = 0]
    /\ last' = [op |-> "poll", client |-> c]
    /\ UNCHANGED << channel, pendingFrame, loginManager, initialized, celestialObjects, wsManager,
                    localPlayerId, playerShips, shipPhysics, players, playerTrails, keyState,
                    crashScreen, connected, serverPlayers, ticks, events >>

(* the handler on a POST of an updatePosition by client c: processMessage
   stores it, then broadcast queues a positions message for every key of
   clients *)
ProxyPost(c, data) ==
    /\ c \in relay.polling
    /\ \E id \in {ClientId(relay.clients, ClientKey(relay.server, "http", c, 0))} :
          relay' = [relay EXCEPT
             !.players = IF id # "" /\ @[id].exists
                         THEN [@ EXCEPT ![id] = [exists |-> TRUE] @@ updatePosition(data)]
                         ELSE @,
             !.pending = [k \in Clients |->
                            IF \E e \in relay.clients : e.key.clientId = k
                            THEN Min2(@[k] + 1, MaxPending) ELSE @[k]]]
    /\ last' = [op |-> "post", client |-> c]
    /\ UNCHANGED << channel, pendingFrame, loginManager, initialized, celestialObjects, wsManager,
                    localPlayerId, playerShips, shipPhysics, players, playerTrails, keyState,
                    crashScreen, connected, serverPlayers, ticks, events >>

NextProxy ==
    \/ \E c \in Clients : ProxyPoll(c)
    \/ \E c \in Clients, data \in RelayMessages : ProxyPost(c, data)

(* a client that polls schedules its next poll when one completes, and the
   handler answers every request: requests keep coming as long as some client
   polls *)
SpecProxy == InitProxy /\ [][NextProxy]_vars /\ WF_vars(NextProxy)

(* client c is registered with the relay *)
Registered(c) == \E e \in relay.clients : e.key.clientId = c

(* C27: a client that has logged in and has stopped polling is disconnected
   in the end: it is no longer registered, its player is gone and nothing is
   queued for it *)
C27_IdleClientDropped ==
    \A c \in Clients :
        (Registered(c) /\ c \notin relay.polling)
            ~> (/\ ~Registered(c)
                /\ relay.pending[c] = 0
                /\ \A e \in relay.clients : relay.players[e.id].exists)

----------------------------------------------------------------------------
(* The WebSocketManager in HTTP fallback mode: on the production host, where
   the constructor makes no socket, and on a development host after every
   WebSocket address has failed. channel.polls counts the polling loops that
   are running, channel.heartbeats the interval timers that are set. *)

MaxPolls == 3

(* isConnected(): this.connected && this.socket && readyState === OPEN *)
isConnected(m) == m.connected /\ m.socket = "open"

(* connect(): nothing with a socket that is open or connecting; in fallback
   mode connectHttpFallback: connected, onOpen with startHeartbeat, which
   clears the timer it replaces, and pollForMessages, which starts a loop *)
connect(m) ==
    IF m.socket \in {"connecting", "open"} THEN m
    ELSE IF m.isHttpFallback
         THEN [m EXCEPT !.connected = TRUE, !.heartbeats = 1, !.polls = @ + 1]
         ELSE [m EXCEPT !.socket = "connecting"]

(* the page once it is loaded: the manager constructed, and connect() called *)
InitFallback ==
    /\ \E socket \in {"null", "closed"} :
          channel = connect([isHttpFallback |-> TRUE, connected |-> FALSE, socket |-> socket,
                             polls |-> 0, heartbeats |-> 0])
    /\ connected = FALSE
    /\ relay = NoRelay
    /\ loginManager = [playerId |-> "", username |-> << >>, requests |-> << >>,
                       answered |-> 0]
    /\ initialized = FALSE
    /\ pendingFrame = ""
    /\ celestialObjects = planets
    /\ wsManager = "websocket.js"
    /\ localPlayerId = ""
    /\ playerShips = [id \in Ids |-> NoShip]
    /\ shipPhysics = [id \in Ids |-> NoPhysics]
    /\ players = {}
    /\ playerTrails = [id \in Ids |-> NoTrail]
    /\ keyState = noKeys
    /\ crashScreen = "absent"
    /\ serverPlayers = {}
    /\ ticks = 0
    /\ events = 0
    /\ last = NoOp

(* attemptLogin(username), with the check it makes a second after connect():
   sendLoginRequest over a connected manager, useTestPlayerId otherwise *)
attemptLogin(username) ==
    /\ loginManager.playerId = ""
    /\ loginManager.requests = << >>
    /\ channel.polls < MaxPolls
    /\ channel' = IF isConnected(channel) THEN channel ELSE connect(channel)
    /\ connected' = isConnected(channel')
    /\ IF connected'
       THEN /\ loginManager' = [loginManager EXCEPT !.requests = Append(@, username)]
            /\ last' = [NoOp EXCEPT !.op = "sendLoginRequest", !.sent = TRUE]
            /\ UNCHANGED << initialized, pendingFrame, localPlayerId, players, playerShips >>
       ELSE /\ loginSuccess("L", username, loginManager.answered)
            /\ last' = [NoOp EXCEPT !.op = "useTestPlayerId"]
    /\ UNCHANGED << relay, celestialObjects, wsManager, shipPhysics, playerTrails, keyState,
                    crashScreen, serverPlayers, ticks, events >>

(* a fetch of pollForMessages completes, or fails: the messages are handed
   on, none for a client that has not logged in, and the next poll of the
   loop is scheduled *)
pollForMessages(ok) ==
    /\ channel.polls > 0
    /\ channel.isHttpFallback /\ channel.connected
    /\ last' = [NoOp EXCEPT !.op = IF ok THEN "poll" ELSE "pollFailed"]
    /\ UNCHANGED << channel, pendingFrame, relay, loginManager, initialized, celestialObjects,
                    wsManager, localPlayerId, playerShips, shipPhysics, players, playerTrails,
                    keyState, crashScreen, connected, serverPlayers, ticks, events >>

(* the heartbeat timer fires: a ping over a connected manager; otherwise
   attemptReconnect, whose timeout calls connect() *)
startHeartbeat ==
    /\ channel.heartbeats > 0
    /\ channel.polls < MaxPolls
    /\ channel' = IF isConnected(channel) THEN channel ELSE connect(channel)
    /\ last' = [NoOp EXCEPT !.op = "heartbeat", !.sent = isConnected(channel)]
    /\ UNCHANGED << pendingFrame, relay, loginManager, initialized, celestialObjects,
                    wsManager, localPlayerId, playerShips, shipPhysics, players, playerTrails,
                    keyState, crashScreen, connected, serverPlayers, ticks, events >>

NextFallback ==
    \/ \E username \in {<< "a" >>, << "a", "b", "c" >>} : attemptLogin(username)
    \/ \E ok \in BOOLEAN : pollForMessages(ok)
    \/ startHeartbeat
    \/ \E elapsed \in Elapsed : Tick(elapsed)

SpecFallback == InitFallback /\ [][NextFallback]_vars

(* C28: a manager in HTTP fallback mode counts as connected: isConnected() is
   true, a login attempt sends the login message instead of taking a test id,
   and a tick that has moved the ship sends its position *)
C28_FallbackConnected ==
    (channel.isHttpFallback /\ channel.connected) =>
        /\ connected
        /\ isConnected(channel)
        /\ last.op # "useTestPlayerId"
        /\ (TickRan /\ ~last.threw /\ localPhysics.lastPosition = local.position
               /\ last.clamped # Zero3) => last.sent

(* C29: in HTTP fallback mode at most one polling loop runs and at most one
   heartbeat timer is set *)
C29_OnePollingLoop ==
    channel.isHttpFallback => (channel.polls <= 1 /\ channel.heartbeats <= 1)

----------------------------------------------------------------------------
(* The relay and a player that has crashed. *)

(* the client that is registered under the player id *)
Owner(id) == \E e \in relay.clients : e.id = id

(* C30: a player whose client has reported a crash and is still registered
   keeps its entry on the relay: the positions it sends after the restart
   find the entry, and the positions broadcast carries it *)
C30_CrashKeepsEntry ==
    \A id \in relay.crashed :
        Owner(id) =>
            /\ relay.reported[id].exists => relay.players[id].exists
            /\ last.op = "positions" => last.carried[id].exists

====
